---- MODULE Spec2Model ----
(***************************************************************************)
(* Model of the Core mining-ticket contract embedded in                    *)
(* src/express-server/src/index.ts (Solidity, lines 386-1089): ticket      *)
(* issuance, claims, the emission schedule and the emission cap.           *)
(*                                                                         *)
(* A Solidity transaction is atomic: a failed require reverts every write  *)
(* the call made.  All mutating entry points are nonReentrant, so one      *)
(* action is one whole transaction; a reverted one changes only `last`,    *)
(* the receipt of the most recent transaction.  SpecCall alone splits a    *)
(* transaction at its external call (the USDC transfer of an issuance, the *)
(* _mint of a claim), to show what the callee finds and what a call back   *)
(* into the contract would do.                                             *)
(*                                                                         *)
(* Amounts are in units of 1/Token of a CORE token, Token standing for the *)
(* source's 10**18: every payout of the source is a whole number of such   *)
(* units, as it is a whole number of wei.  uint256 arithmetic is checked   *)
(* in Solidity ^0.8 and no value of the model comes near 2^256, so the     *)
(* integers are unbounded.                                                 *)
(***************************************************************************)
EXTENDS Integers, Sequences, FiniteSets, TLC

\* ------------------------------------------------------------------ bounds
\* The model's stand-in for 10^9 tokens ("billion" in the source's supply
\* parameters), scaled down so that stage changes and pool exhaustion are
\* reached with a handful of tickets.
Billion == 15000
\* The model's stand-in for 10**18, the number of smallest units in a token:
\* the least power of two that makes every payout
\* (300000 * Token / 2^stage) * timeRatio / 10000 a whole number of units,
\* as it is in the source.
Token == 16
\* Tickets ever issued in a run of Spec, which is also the largest count
\* passed to an issuance call, and the longest ticket-id list passed to a
\* claim call.
MaxTickets == 2
MaxCount == MaxTickets
MaxBatch == 2
\* The same for SpecDeep, where the count ranges up to the per-address limit.
DeepTickets == 6
DeepBatch == 1
\* The same for SpecPayout.
PayoutTickets == 2
PayoutBatch == 2
\* The same for SpecCall.
CallTickets == 2
CallBatch == 1
\* The number of hexadecimal digits of an address in SpecHttp; it stands
\* for 40.
AddressDigits == 4
\* The same for SpecLP.
LPTickets == 2
LPBatch == 1
\* The same for SpecPool.
PoolTickets == 4
PoolBatch == 2
StageTickets == 4
StageBatch == 3
CapTickets == 2
CapBatch == 1
DelegateTickets == 6
DelegateBatch == 2

\* --------------------------------------------------------------- constants
TICKET_PRICE == 5
MAX_TICKETS_PER_ADDRESS == 5
MACHINE_LIFETIME == 21600
CLAIM_GRACE_PERIOD == 86400
TOTAL_CLAIM_WINDOW == 108000
STAGE_SIZE == 10 * Billion * Token
MINING_POOL == 60 * Billion * Token
LP_ALLOCATION == 40 * Billion * Token
INITIAL_OUTPUT == 300000 * Token
PERCENTAGE_BASE == 10000
InitialEmissionCap == 100 * Billion * Token
HARD_LIMIT == 1000 * Billion * Token

\* --------------------------------------------------------------- addresses
ZERO == "0x0"
Owner == "owner"
Alice == "alice"
Addresses == {Owner, Alice}
UserArgs == Addresses \cup {ZERO}

\* Block timestamps the runs of Spec visit: the purchase, the last second
\* of mining and its end, and the second after the end of the claim window.
Instants ==
  {0, MACHINE_LIFETIME - 1, MACHINE_LIFETIME, TOTAL_CLAIM_WINDOW + 1}
\* The same for SpecDeep.
DeepInstants == {0, TOTAL_CLAIM_WINDOW, TOTAL_CLAIM_WINDOW + 1}
\* The same for SpecPool.
PoolInstants == {0, MACHINE_LIFETIME}
\* The same for SpecCap.
CapInstants == {0, MACHINE_LIFETIME}
\* The same for SpecDelegate.
DelegateInstants == {0, MACHINE_LIFETIME}
\* The same for SpecStages.
StageInstants == {0, MACHINE_LIFETIME \div 2, MACHINE_LIFETIME}
\* The same for SpecLP.
LPInstants == {0, MACHINE_LIFETIME}
\* The same for SpecCall.
CallInstants == {0, MACHINE_LIFETIME}
\* The same for SpecPayout.
PayoutInstants ==
  {0, 1, 2, 3, 12345, MACHINE_LIFETIME - 1, MACHINE_LIFETIME,
   TOTAL_CLAIM_WINDOW, TOTAL_CLAIM_WINDOW + 1, TOTAL_CLAIM_WINDOW + 2}

VARIABLES
  userMachines,   \* address -> sequence of Machine
  nextTicketId,
  totalMinted,
  ticketsSold,
  emissionCap,
  balanceOf,      \* ERC20 balance of CORE per address
  now,            \* block.timestamp
  last,           \* receipt of the most recent transaction
  status,         \* ReentrancyGuard's _status
  callStack,      \* the call that is at its external call, if any
  http            \* the HTTP server: the request in hand and its answer

vars == <<userMachines, nextTicketId, totalMinted, ticketsSold, emissionCap,
          balanceOf, now, last, status, callStack, http>>

\* the variables of the contract
contract == <<userMachines, nextTicketId, totalMinted, ticketsSold,
              emissionCap, balanceOf, now, last, status, callStack>>

ledger == <<userMachines, nextTicketId, totalMinted, ticketsSold, balanceOf>>

\* ------------------------------------------------------------ pure helpers
RECURSIVE SumSeq(_)
SumSeq(s) == IF s = <<>> THEN 0 ELSE Head(s) + SumSeq(Tail(s))

\* floor(a * b / c), computed without forming a * b
MulDiv(a, b, c) == (a \div c) * b + ((a % c) * b) \div c

Machine(id, purchaseTime, expiryTime, outputPerMachine) ==
  [ticketId |-> id, purchasedAt |-> purchaseTime, expiresAt |-> expiryTime,
   output |-> outputPerMachine, claimed |-> FALSE]

\* ------------------------------------------------------- emission schedule
\* variant: the stage is not capped
StageOf_Uncapped(minted) == minted \div STAGE_SIZE

StageOf(minted) ==
  LET stage == minted \div STAGE_SIZE IN IF stage >= 6 THEN 5 ELSE stage

getCurrentStage == StageOf(totalMinted)

RECURSIVE Halve(_, _)
Halve(output, n) == IF n = 0 THEN output ELSE Halve(output \div 2, n - 1)

\* variant: mining ends one stage early
calculateStageOutput_EndsEarly(stage) ==
  IF stage >= 5 THEN 0 ELSE Halve(INITIAL_OUTPUT, stage)

\* variant: the halving goes on after the last stage
calculateStageOutput_NoEnd(stage) == Halve(INITIAL_OUTPUT, stage)

calculateStageOutput(stage) ==
  IF stage >= 6 THEN 0 ELSE Halve(INITIAL_OUTPUT, stage)

\* ------------------------------------------------------------------ views
\* variant: a claimed machine counts until its deadline
IsActive_IgnoresClaimed(machine, currentTime) ==
  currentTime <= machine.purchasedAt + TOTAL_CLAIM_WINDOW

\* variant: an unclaimed machine counts for ever
IsActive_IgnoresDeadline(machine, currentTime) == ~machine.claimed

IsActive(machine, currentTime) ==
  ~machine.claimed /\ currentTime <= machine.purchasedAt + TOTAL_CLAIM_WINDOW

ActiveCountAt(machines, currentTime) ==
  Cardinality({i \in 1..Len(machines) : IsActive(machines[i], currentTime)})

getActiveTicketCount(user) == ActiveCountAt(userMachines[user], now)

\* variant: the claimed flag is not consulted
ViewClaimable_IgnoresClaimed(machine) ==
  /\ now >= machine.purchasedAt
  /\ now <= machine.purchasedAt + TOTAL_CLAIM_WINDOW

\* the test getUserMachines makes before it computes an amount
ViewClaimable(machine) ==
  /\ ~machine.claimed
  /\ now >= machine.purchasedAt
  /\ now <= machine.purchasedAt + TOTAL_CLAIM_WINDOW

\* claimableNow[i] of getUserMachines
ClaimableNow(machine) ==
  IF ViewClaimable(machine)
    THEN LET elapsed == now - machine.purchasedAt IN
         IF elapsed >= MACHINE_LIFETIME
           THEN machine.output
           ELSE LET timeRatio == (elapsed * PERCENTAGE_BASE)
                                   \div MACHINE_LIFETIME
                IN MulDiv(machine.output, timeRatio, PERCENTAGE_BASE)
    ELSE 0

\* the six arrays getUserMachines returns, as one array of records
MachinesView(machines) ==
  [i \in 1..Len(machines) |->
     [ticketId |-> machines[i].ticketId,
      purchasedAt |-> machines[i].purchasedAt,
      expiresAt |-> machines[i].expiresAt,
      output |-> machines[i].output,
      claimed |-> machines[i].claimed,
      claimableNow |-> ClaimableNow(machines[i])]]

getUserMachines(user) == MachinesView(userMachines[user])

\* the six values getPlatformStats returns, from what is minted and sold
PlatformStatsAt(minted, sold) ==
  [currentStage |-> StageOf(minted),
   stageOutput |-> calculateStageOutput(StageOf(minted)),
   totalMintedAmount |-> minted,
   remainingInPool |-> MINING_POOL - minted,
   ticketsSoldCount |-> sold,
   currentEmissionCap |-> emissionCap]

getPlatformStats == PlatformStatsAt(totalMinted, ticketsSold)

\* ------------------------------------------------------- reentrancy guard
NOT_ENTERED == "NOT_ENTERED"
ENTERED == "ENTERED"

\* variant: the modifier is missing
nonReentrant_Absent(err) == err

\* the nonReentrant modifier: a call that finds the guard taken reverts
\* before its body runs; err is the revert reason of the body
nonReentrant(err) ==
  IF status = ENTERED THEN "ReentrancyGuardReentrantCall" ELSE err

\* --------------------------------------------------------------- issuance
\* variant: the limit is tested against the tickets already held only
CapacityOk_IgnoresCount(activeTickets, count) ==
  activeTickets <= MAX_TICKETS_PER_ADDRESS

CapacityOk(activeTickets, count) ==
  activeTickets + count <= MAX_TICKETS_PER_ADDRESS

\* variant: <= for <
PoolOpen_Inclusive == totalMinted <= MINING_POOL

PoolOpen == totalMinted < MINING_POOL

\* variant: the counter is not advanced inside the loop
TicketIdAt_Stuck(i) == nextTicketId

\* variant: the counter is advanced before the id is taken
TicketIdAt_Ahead(i) == nextTicketId + i

\* the id given to the i-th ticket of a batch (nextTicketId++ in the loop)
TicketIdAt(i) == nextTicketId + (i - 1)

\* variant: the stage is not consulted
LockedOutput_Initial == INITIAL_OUTPUT

\* variant: the reward is doubled, not halved, from stage to stage
LockedOutput_Rising == INITIAL_OUTPUT * (2 ^ StageOf(totalMinted))

LockedOutput == calculateStageOutput(getCurrentStage)

NewMachines(count) ==
  [i \in 1..count |->
     Machine(TicketIdAt(i), now, now + MACHINE_LIFETIME, LockedOutput)]

\* the revert reason of buyTickets, "" when the call goes through
BuyTicketsErr(sender, count, paid) ==
  nonReentrant(
    IF ~(count > 0) THEN "Invalid count"
    ELSE IF ~PoolOpen THEN "Mining pool depleted"
    ELSE IF ~CapacityOk(getActiveTicketCount(sender), count)
      THEN "Exceeds max tickets per address"
    ELSE IF ~paid THEN "USDC transfer failed"
    ELSE "")

BuyTicketsForErr(user, count, paid) ==
  nonReentrant(
    IF user = ZERO THEN "Invalid user address"
    ELSE IF ~(count > 0) THEN "Invalid count"
    ELSE IF ~PoolOpen THEN "Mining pool depleted"
    ELSE IF ~CapacityOk(getActiveTicketCount(user), count)
      THEN "User exceeds max tickets"
    ELSE IF ~paid THEN "USDC transfer failed"
    ELSE "")

\* variant: the authorized amount is not compared with the price
AmountMatches_Unchecked(value, count) == TRUE

\* value == totalCost, with totalCost = TICKET_PRICE * count
AmountMatches(value, count) == value = TICKET_PRICE * count

BuyTicketsWithAuthorizationErr(user, count, from, value, paid) ==
  nonReentrant(
    IF user = ZERO THEN "Invalid user address"
    ELSE IF user # from THEN "User must be authorizer"
    ELSE IF ~(count > 0) THEN "Invalid count"
    ELSE IF ~PoolOpen THEN "Mining pool depleted"
    ELSE IF ~CapacityOk(getActiveTicketCount(user), count)
      THEN "User exceeds max tickets"
    ELSE IF ~AmountMatches(value, count)
      THEN "Incorrect authorization amount"
    ELSE IF ~paid THEN "transferWithAuthorization reverted"
    ELSE "")

\* the TicketPurchased events of a batch, one per machine
PurchaseEvents(user, machines) ==
  [i \in 1..Len(machines) |->
     [event |-> "TicketPurchased", buyer |-> user,
      ticketId |-> machines[i].ticketId, output |-> machines[i].output,
      stage |-> getCurrentStage, expiresAt |-> machines[i].expiresAt]]

\* what a transaction leaves behind for an observer: the revert reason (""
\* when it went through) and the events it emitted (none when it reverted)
Receipt(op, err, events) ==
  [err |-> err, events |-> IF err = "" THEN events ELSE <<>>]

\* variant: assignment instead of push
Appended_Overwrites(machines, count) == NewMachines(count)

\* push onto the holder's array
Appended(machines, count) == machines \o NewMachines(count)

\* variant: the counter counts calls, not tickets
SoldAfter_PerCall(count) == ticketsSold + 1

\* ticketsSold += count
SoldAfter(count) == ticketsSold + count

\* the storage an issuance writes: as left by a call that went through, or
\* as before the call after a revert
IssueWrites(err, user, count) ==
  IF err = ""
    THEN [userMachines |->
            [userMachines EXCEPT ![user] = Appended(@, count)],
          nextTicketId |-> nextTicketId + count,
          ticketsSold |-> SoldAfter(count)]
    ELSE [userMachines |-> userMachines, nextTicketId |-> nextTicketId,
          ticketsSold |-> ticketsSold]

Issue(op, err, user, count) ==
  LET w == IssueWrites(err, user, count) IN
  /\ userMachines' = w.userMachines
  /\ nextTicketId' = w.nextTicketId
  /\ ticketsSold' = w.ticketsSold
  /\ last' = Receipt(op, err, PurchaseEvents(user, NewMachines(count)))
  /\ UNCHANGED <<http, totalMinted, emissionCap, balanceOf, now, status, callStack>>

buyTickets(sender, count, paid) ==
  Issue("buyTickets", BuyTicketsErr(sender, count, paid), sender, count)

\* variant: the tickets go to the payer
StoredFor_Payer(sender, user) == sender

\* the holder whose array buyTicketsFor pushes to: userMachines[user]
StoredFor(sender, user) == user

buyTicketsFor(sender, user, count, paid) ==
  Issue("buyTicketsFor", BuyTicketsForErr(user, count, paid),
        StoredFor(sender, user), count)

buyTicketsWithAuthorization(user, count, from, value, paid) ==
  Issue("buyTicketsWithAuthorization",
        BuyTicketsWithAuthorizationErr(user, count, from, value, paid),
        user, count)

\* ------------------------------------------------------------------ claim
\* variant: the claimed flag is not tested
FindMachine_IgnoresClaimed(machines, ticketId) ==
  LET hits == {j \in 1..Len(machines) : machines[j].ticketId = ticketId}
  IN IF hits = {} THEN 0 ELSE CHOOSE j \in hits : \A k \in hits : j <= k

\* index of the first machine with this id that is not claimed, 0 if none
FindMachine(machines, ticketId) ==
  LET hits == {j \in 1..Len(machines) :
                 machines[j].ticketId = ticketId /\ ~machines[j].claimed}
  IN IF hits = {} THEN 0 ELSE CHOOSE j \in hits : \A k \in hits : j <= k

\* variant: the branch for a machine that has finished is never taken
Matured_Never(elapsed) == FALSE

\* elapsed >= MACHINE_LIFETIME
Matured(elapsed) == elapsed >= MACHINE_LIFETIME

\* variant: the ratio is taken in whole percents
TimeRatio_Percent(elapsed) == ((elapsed * 100) \div MACHINE_LIFETIME) * 100

\* the share of the mining time that has passed, in 1/PERCENTAGE_BASE
TimeRatio(elapsed) == (elapsed * PERCENTAGE_BASE) \div MACHINE_LIFETIME

\* variant: one division, by the mining time
ActualOutput_OneStep(output, elapsed) ==
  IF Matured(elapsed) THEN output
  ELSE MulDiv(output, elapsed, MACHINE_LIFETIME)

ActualOutput(output, elapsed) ==
  IF Matured(elapsed)
    THEN output
    ELSE MulDiv(output, TimeRatio(elapsed), PERCENTAGE_BASE)

\* variant: paid from the output of the stage current at the claim
MachinePayout_CurrentStage(machine) ==
  ActualOutput(calculateStageOutput(getCurrentStage),
               now - machine.purchasedAt)

\* what a claim at this block pays for a machine: from its locked output
MachinePayout(machine) ==
  ActualOutput(machine.output, now - machine.purchasedAt)

\* variant: an id that is not found is skipped
Missing_Skipped(acc) == acc

\* require(found, ...) after an inner loop that found nothing
Missing(acc) == [acc EXCEPT !.err = "Ticket not found or already claimed"]

\* variant: a claimed machine is deleted from the array
Flagged_Deleted(machines, j) ==
  [i \in 1..(Len(machines) - 1) |->
     IF i < j THEN machines[i] ELSE machines[i + 1]]

\* machine.claimed = true
Flagged(machines, j) == [machines EXCEPT ![j].claimed = TRUE]

\* variant: no deadline
WithinWindow_Always(machine) == TRUE

\* variant: < for <=
WithinWindow_Strict(machine) ==
  now < machine.purchasedAt + TOTAL_CLAIM_WINDOW

\* block.timestamp <= claimDeadline
WithinWindow(machine) == now <= machine.purchasedAt + TOTAL_CLAIM_WINDOW

\* one iteration of the outer loop of claim; acc carries the revert reason,
\* the holder's machines as written so far, and the payouts so far
ClaimOne(acc, ticketId) ==
  IF acc.err # "" THEN acc
  ELSE
    LET j == FindMachine(acc.machines, ticketId) IN
    IF j = 0
      THEN Missing(acc)
      ELSE
        LET machine == acc.machines[j] IN
        IF ~(now >= machine.purchasedAt)
          THEN [acc EXCEPT !.err = "Mining not started"]
        ELSE IF ~WithinWindow(machine)
          THEN [acc EXCEPT !.err = "Claim period expired (30h limit)"]
        ELSE
          [err |-> "",
           machines |-> Flagged(acc.machines, j),
           payouts |-> Append(acc.payouts, MachinePayout(machine))]

RECURSIVE ClaimLoop(_, _)
ClaimLoop(acc, ticketIds) ==
  IF ticketIds = <<>> THEN acc
  ELSE ClaimLoop(ClaimOne(acc, Head(ticketIds)), Tail(ticketIds))

\* variant: no test against the pool
PoolHasRoom_Unchecked(totalRewards) == TRUE

\* variant: the emission cap is tested as well
PoolHasRoom_UnderCap(totalRewards) ==
  /\ totalMinted + totalRewards <= MINING_POOL
  /\ totalMinted + totalRewards <= emissionCap

PoolHasRoom(totalRewards) == totalMinted + totalRewards <= MINING_POOL

\* variant: what is left of the pool is minted instead
OverPool_Clipped(r) == [r EXCEPT !.payouts = <<MINING_POOL - totalMinted>>]

\* require(totalMinted + totalRewards <= MINING_POOL, ...) failing
OverPool(r) == [r EXCEPT !.err = "Exceeds mining pool"]

\* variant: a batch that totals nothing is let through
HasRewards_Any(totalRewards) == TRUE

\* variant: >= for >
HasRewards_OrNone(totalRewards) == totalRewards >= 0

\* totalRewards > 0
HasRewards(totalRewards) == totalRewards > 0

\* the body of claim for one holder: loop, then the two requires
ClaimBody(user, ticketIds) ==
  LET r == ClaimLoop([err |-> "", machines |-> userMachines[user],
                      payouts |-> <<>>], ticketIds)
      totalRewards == SumSeq(r.payouts)
  IN IF r.err # "" THEN r
     ELSE IF ~HasRewards(totalRewards)
       THEN [r EXCEPT !.err = "No rewards to claim"]
     ELSE IF ~PoolHasRoom(totalRewards) THEN OverPool(r)
     ELSE r

\* a claim that reverts with this reason
Refused(r, err) == IF err = r.err THEN r ELSE [r EXCEPT !.err = err]

\* claim, behind its modifier
ClaimRun(user, ticketIds) ==
  LET r == ClaimBody(user, ticketIds) IN Refused(r, nonReentrant(r.err))

\* variant: = for +=
MintedAfter_Overwrite(totalRewards) == totalRewards

MintedAfter(totalRewards) == totalMinted + totalRewards

\* the RewardsClaimed events of a batch, one per ticket id
ClaimEvents(user, ticketIds, payouts) ==
  [i \in 1..Len(payouts) |->
     [event |-> "RewardsClaimed", miner |-> user, ticketId |-> ticketIds[i],
      amount |-> payouts[i], timestamp |-> now]]

\* the storage a claim writes: as left by a call that went through, or as
\* before the call after a revert
SettleWritesTo(r, user, receiver) ==
  IF r.err = ""
    THEN [userMachines |-> [userMachines EXCEPT ![user] = r.machines],
          totalMinted |-> MintedAfter(SumSeq(r.payouts)),
          balanceOf |->
            [balanceOf EXCEPT ![receiver] = @ + SumSeq(r.payouts)]]
    ELSE [userMachines |-> userMachines, totalMinted |-> totalMinted,
          balanceOf |-> balanceOf]

\* the writes of a claim that mints to the holder of the tickets
SettleWrites(r, user) == SettleWritesTo(r, user, user)

SettleTo(op, r, user, receiver, ticketIds) ==
  LET w == SettleWritesTo(r, user, receiver) IN
  /\ userMachines' = w.userMachines
  /\ totalMinted' = w.totalMinted
  /\ balanceOf' = w.balanceOf
  /\ last' = Receipt(op, r.err, ClaimEvents(user, ticketIds, r.payouts))
  /\ UNCHANGED <<http, nextTicketId, ticketsSold, emissionCap, now, status,
                 callStack>>

Settle(op, r, user, ticketIds) == SettleTo(op, r, user, user, ticketIds)

claim(sender, ticketIds) ==
  Settle("claim", ClaimRun(sender, ticketIds), sender, ticketIds)

\* claimFor, behind its modifier
ClaimForRun(user, ticketIds) ==
  LET r == IF user = ZERO
             THEN [err |-> "Invalid user address", machines |-> <<>>,
                   payouts |-> <<>>]
             ELSE ClaimBody(user, ticketIds)
  IN Refused(r, nonReentrant(r.err))

\* variant: minted to the caller
MintedTo_Caller(sender, user) == sender

\* the receiver of claimFor's mint: _mint(user, totalRewards)
MintedTo(sender, user) == user

\* the writes of claimFor, called by sender for user
ClaimForWrites(sender, user, ticketIds) ==
  SettleWritesTo(ClaimForRun(user, ticketIds), user, MintedTo(sender, user))

claimFor(sender, user, ticketIds) ==
  SettleTo("claimFor", ClaimForRun(user, ticketIds), user,
           MintedTo(sender, user), ticketIds)

\* ------------------------------------------------------------------ owner
\* variant: the modifier is missing
onlyOwner_Absent(sender) == TRUE

\* the onlyOwner modifier
onlyOwner(sender) == sender = Owner

\* variant: no upper limit
WithinHardLimit_Unchecked(newCap) == TRUE

\* newCap <= 1_000_000_000_000 * 10**18
WithinHardLimit(newCap) == newCap <= HARD_LIMIT

UpdateEmissionCapErr(sender, newCap) ==
  IF ~onlyOwner(sender) THEN "OwnableUnauthorizedAccount"
  ELSE IF ~(newCap >= totalMinted) THEN "Below minted"
  ELSE IF ~WithinHardLimit(newCap) THEN "Exceeds hard limit"
  ELSE ""

updateEmissionCap(sender, newCap) ==
  LET err == UpdateEmissionCapErr(sender, newCap) IN
  /\ emissionCap' = IF err = "" THEN newCap ELSE emissionCap
  /\ last' = Receipt("updateEmissionCap", err,
                     <<[event |-> "EmissionCapUpdated", oldCap |-> emissionCap,
                        newCap |-> newCap]>>)
  /\ UNCHANGED <<http, userMachines, nextTicketId, totalMinted, ticketsSold,
                 balanceOf, now, status, callStack>>

\* ERC20.totalSupply: the sum of what _mint has handed out; nothing burns
totalSupply == SumSeq([i \in 1..2 |-> balanceOf[IF i = 1 THEN Owner ELSE Alice]])

MintForLPErr(sender, amount) ==
  IF ~onlyOwner(sender) THEN "OwnableUnauthorizedAccount"
  ELSE IF ~(totalSupply = 0) THEN "LP already minted"
  ELSE IF ~(amount <= LP_ALLOCATION) THEN "Exceeds LP allocation (40B max)"
  ELSE ""

\* mintForLP: the two requires, then _mint(owner(), amount), which adds the
\* amount to the owner's balance and emits Transfer from the zero address
mintForLP(sender, amount) ==
  LET err == MintForLPErr(sender, amount) IN
  /\ balanceOf' = IF err = "" THEN [balanceOf EXCEPT ![Owner] = @ + amount]
                              ELSE balanceOf
  /\ last' = Receipt("mintForLP", err,
                     <<[event |-> "Transfer", from |-> ZERO, to |-> Owner,
                        value |-> amount]>>)
  /\ UNCHANGED <<http, userMachines, nextTicketId, totalMinted, ticketsSold,
                 emissionCap, now, status, callStack>>

\* ------------------------------------------------------------------- time
\* a later block: block.timestamp moves forward
AdvanceTime(t) ==
  /\ t > now
  /\ now' = t
  /\ last' = Receipt("block", "", <<>>)
  /\ UNCHANGED <<http, userMachines, nextTicketId, totalMinted, ticketsSold,
                 emissionCap, balanceOf, status, callStack>>

\* ------------------------------------------------- calls at external calls
\* the contract's storage, as one value
Storage ==
  [userMachines |-> userMachines, nextTicketId |-> nextTicketId,
   totalMinted |-> totalMinted, ticketsSold |-> ticketsSold,
   balanceOf |-> balanceOf]

\* a call stopped at its external call: what it was called with, the storage
\* at its start (what a revert brings back), the reason it reverts with if
\* the external call fails, and the entry points called back meanwhile
Frame(kind, op, user, count, ticketIds, payouts, failure) ==
  [kind |-> kind, op |-> op, user |-> user, count |-> count,
   ticketIds |-> ticketIds, payouts |-> payouts, failure |-> failure,
   saved |-> Storage, inner |-> {}]

\* variant: ticketsSold is counted up before the transfer
BeforeTransfer_CountFirst(user, count) ==
  [userMachines |-> userMachines, nextTicketId |-> nextTicketId,
   ticketsSold |-> ticketsSold + count]

\* the ledger as the statements before the USDC transfer leave it: they
\* are requires and a local, and write nothing
BeforeTransfer(user, count) ==
  [userMachines |-> userMachines, nextTicketId |-> nextTicketId,
   ticketsSold |-> ticketsSold]

\* an issuance up to its USDC transfer: the requires before it, then the
\* external call, with nothing written yet
BeginIssue(op, err, failure, user, count) ==
  /\ callStack = <<>>
  /\ IF err # ""
       THEN Issue(op, err, user, count)
       ELSE /\ LET w == BeforeTransfer(user, count) IN
               /\ userMachines' = w.userMachines
               /\ nextTicketId' = w.nextTicketId
               /\ ticketsSold' = w.ticketsSold
            /\ status' = ENTERED
            /\ callStack' =
                 <<Frame("issue", op, user, count, <<>>, <<>>, failure)>>
            /\ UNCHANGED <<http, totalMinted, emissionCap, balanceOf, now, last>>

\* a claim up to its _mint: the loop and the requires, the flags and
\* totalMinted written, then the mint
BeginClaim(op, r, user, ticketIds) ==
  /\ callStack = <<>>
  /\ IF r.err # ""
       THEN Settle(op, r, user, ticketIds)
       ELSE /\ userMachines' = [userMachines EXCEPT ![user] = r.machines]
            /\ totalMinted' = MintedAfter(SumSeq(r.payouts))
            /\ status' = ENTERED
            /\ callStack' =
                 <<Frame("claim", op, user, 0, ticketIds, r.payouts,
                         "ERC20 mint reverted")>>
            /\ UNCHANGED <<http, nextTicketId, ticketsSold, emissionCap, balanceOf,
                           now, last>>

\* variant: the outcome of the external call is not looked at
ReturnErr_Unchecked(frame, ok) == ""

\* the revert reason of the call once its external call is back
ReturnErr(frame, ok) == IF ok THEN "" ELSE frame.failure

\* the storage the call leaves: the rest of its body after the external
\* call, or the storage at its start after a revert
ReturnWrites(frame, ok) ==
  IF ReturnErr(frame, ok) # "" THEN frame.saved
  ELSE IF frame.kind = "issue"
    THEN LET w == IssueWrites("", frame.user, frame.count)
         IN [Storage EXCEPT !.userMachines = w.userMachines,
                            !.nextTicketId = w.nextTicketId,
                            !.ticketsSold = w.ticketsSold]
    ELSE [Storage EXCEPT
            !.balanceOf[frame.user] = @ + SumSeq(frame.payouts)]

ReturnReceipt(frame, ok) ==
  Receipt(frame.op, ReturnErr(frame, ok),
          IF frame.kind = "issue"
            THEN PurchaseEvents(frame.user, NewMachines(frame.count))
            ELSE ClaimEvents(frame.user, frame.ticketIds, frame.payouts))

\* the external call is back and the call runs to its end
Return(kind, ok) ==
  /\ callStack # <<>>
  /\ callStack[1].kind = kind
  /\ LET w == ReturnWrites(callStack[1], ok) IN
     /\ userMachines' = w.userMachines
     /\ nextTicketId' = w.nextTicketId
     /\ totalMinted' = w.totalMinted
     /\ ticketsSold' = w.ticketsSold
     /\ balanceOf' = w.balanceOf
  /\ last' = ReturnReceipt(callStack[1], ok)
  /\ status' = NOT_ENTERED
  /\ callStack' = <<>>
  /\ UNCHANGED <<http, emissionCap, now>>

\* the USDC token, while it runs the transfer, calls an issuance entry
\* point of the contract
ReenterIssue(op, err, user, count) ==
  /\ callStack # <<>>
  /\ callStack[1].kind = "issue"
  /\ LET w == IssueWrites(err, user, count) IN
     /\ userMachines' = w.userMachines
     /\ nextTicketId' = w.nextTicketId
     /\ ticketsSold' = w.ticketsSold
  /\ callStack' = <<[callStack[1] EXCEPT !.inner = @ \cup {op}]>>
  /\ UNCHANGED <<http, totalMinted, emissionCap, balanceOf, now, last, status>>

\* the same, calling a claim entry point
ReenterClaim(op, r, user) ==
  /\ callStack # <<>>
  /\ callStack[1].kind = "issue"
  /\ LET w == SettleWrites(r, user) IN
     /\ userMachines' = w.userMachines
     /\ totalMinted' = w.totalMinted
     /\ balanceOf' = w.balanceOf
  /\ callStack' = <<[callStack[1] EXCEPT !.inner = @ \cup {op}]>>
  /\ UNCHANGED <<http, nextTicketId, ticketsSold, emissionCap, now, last, status>>

\* ------------------------------------------------------------- HTTP server
\* The two servers, index.ts and index-fixed.ts, answer POST /api/buy-ticket
\* with the same middleware and the same handler but for the address test.
\* Text is a sequence of characters; a value of a JSON body or of a header
\* is undefined, a string, a number or an array holding one string.
Servers == {"index", "index-fixed"}

Undefined == [type |-> "undefined", chars |-> <<>>, value |-> 0]
StringValue(chars) == [type |-> "string", chars |-> chars, value |-> 0]
NumberValue(n) == [type |-> "number", chars |-> <<>>, value |-> n]
ArrayValue(chars) == [type |-> "array", chars |-> chars, value |-> 0]

DecimalDigits == <<"0", "1", "2", "3", "4", "5", "6", "7", "8", "9">>
HexLower == DecimalDigits \o <<"a", "b", "c", "d", "e", "f">>
HexUpper == DecimalDigits \o <<"A", "B", "C", "D", "E", "F">>

\* the character at a place of a text, "" past its end
At(s, i) == IF i \in 1..Len(s) THEN s[i] ELSE ""

\* c is a digit of this radix, in either case
IsDigit(c, radix) == \E k \in 1..radix : HexLower[k] = c \/ HexUpper[k] = c
DigitOf(c) == (CHOOSE k \in 1..16 : HexLower[k] = c \/ HexUpper[k] = c) - 1

\* the decimal text of an integer
RECURSIVE Decimal(_)
Decimal(n) ==
  IF n < 0 THEN <<"-">> \o Decimal(-n)
  ELSE IF n < 10 THEN <<DecimalDigits[n + 1]>>
  ELSE Decimal(n \div 10) \o <<DecimalDigits[(n % 10) + 1]>>

\* the text of a value: what String(v), parseInt(v) and regex.test(v) read
StringOf(v) ==
  CASE v.type = "undefined" -> <<"u", "n", "d", "e", "f", "i", "n", "e", "d">>
    [] v.type = "string" -> v.chars
    [] v.type = "number" -> Decimal(v.value)
    [] v.type = "array" -> v.chars

\* JavaScript's ToBoolean, as in !v and in v || w
Truthy(v) ==
  CASE v.type = "undefined" -> FALSE
    [] v.type = "string" -> v.chars # <<>>
    [] v.type = "number" -> v.value # 0
    [] v.type = "array" -> TRUE

RECURSIVE SkipSpaces(_)
SkipSpaces(s) ==
  IF s # <<>> /\ Head(s) = " " THEN SkipSpaces(Tail(s)) ELSE s

\* the longest run of digits of this radix a text begins with
RECURSIVE DigitPrefix(_, _)
DigitPrefix(s, radix) ==
  IF s # <<>> /\ IsDigit(Head(s), radix)
    THEN <<Head(s)>> \o DigitPrefix(Tail(s), radix)
    ELSE <<>>

RECURSIVE DigitsValue(_, _, _)
DigitsValue(ds, radix, acc) ==
  IF ds = <<>> THEN acc
  ELSE DigitsValue(Tail(ds), radix, acc * radix + DigitOf(Head(ds)))

NaN == [nan |-> TRUE, value |-> 0]

\* parseInt without a radix: leading blanks, a sign, 0x for hexadecimal,
\* then as many digits as there are; NaN when there is none
parseInt(v) ==
  LET s == SkipSpaces(StringOf(v))
      negative == At(s, 1) = "-"
      unsigned == IF At(s, 1) \in {"+", "-"} THEN Tail(s) ELSE s
      hex == At(unsigned, 1) = "0" /\ At(unsigned, 2) \in {"x", "X"}
      radix == IF hex THEN 16 ELSE 10
      ds == DigitPrefix(IF hex THEN Tail(Tail(unsigned)) ELSE unsigned, radix)
  IN IF ds = <<>> THEN NaN
     ELSE [nan |-> FALSE,
           value |-> (IF negative THEN -1 ELSE 1) * DigitsValue(ds, radix, 0)]

\* !count || count < 1 || count > 5
CountRejected(count) ==
  count.nan \/ count.value = 0 \/ count.value < 1 \/ count.value > 5

\* /^0x[a-fA-F0-9]{40}$/i.test(v): the text of v is 0x, in either case, and
\* AddressDigits hexadecimal digits
AddressPattern(v) ==
  LET s == StringOf(v) IN
  /\ Len(s) = 2 + AddressDigits
  /\ At(s, 1) = "0"
  /\ At(s, 2) \in {"x", "X"}
  /\ \A i \in 3..Len(s) : IsDigit(s[i], 16)

\* ethers.isAddress(v): a string of AddressDigits hexadecimal digits with
\* or without 0x in front (for a string of one case; one of mixed case has
\* to carry its checksum as well)
isAddress(v) ==
  /\ v.type = "string"
  /\ LET s == IF At(v.chars, 1) = "0" /\ At(v.chars, 2) = "x"
                THEN Tail(Tail(v.chars)) ELSE v.chars
     IN /\ Len(s) = AddressDigits
        /\ \A i \in 1..Len(s) : IsDigit(s[i], 16)

\* the address test of each server
AddressAccepted(server, v) ==
  IF server = "index" THEN AddressPattern(v) ELSE isAddress(v)

\* JSON.parse: the place after the value that begins at place i of a text,
\* 0 when there is none.  Strings without escapes, whole numbers, the three
\* literals, arrays and objects.
RECURSIVE SkipWs(_, _)
SkipWs(s, i) == IF At(s, i) = " " THEN SkipWs(s, i + 1) ELSE i

RECURSIVE StringEnd(_, _)
StringEnd(s, i) ==
  IF At(s, i) = "" \/ At(s, i) = "\\" THEN 0
  ELSE IF At(s, i) = "\"" THEN i + 1
  ELSE StringEnd(s, i + 1)

RECURSIVE DigitsEnd(_, _)
DigitsEnd(s, i) == IF IsDigit(At(s, i), 10) THEN DigitsEnd(s, i + 1) ELSE i

NumberEnd(s, i) ==
  LET j == IF At(s, i) = "-" THEN i + 1 ELSE i IN
  IF ~IsDigit(At(s, j), 10) THEN 0
  ELSE IF At(s, j) = "0" THEN j + 1
  ELSE DigitsEnd(s, j)

\* the text has this word at place i
HasWord(s, i, word) == \A k \in 1..Len(word) : At(s, i + k - 1) = word[k]

LiteralEnd(s, i) ==
  IF HasWord(s, i, <<"t", "r", "u", "e">>) THEN i + 4
  ELSE IF HasWord(s, i, <<"n", "u", "l", "l">>) THEN i + 4
  ELSE IF HasWord(s, i, <<"f", "a", "l", "s", "e">>) THEN i + 5
  ELSE 0

RECURSIVE ValueEnd(_, _)
RECURSIVE ElementsEnd(_, _)
RECURSIVE MembersEnd(_, _)

\* after a value of an array: a comma and a value more, or the bracket
ElementsEnd(s, i) ==
  LET e == ValueEnd(s, i)
      w == SkipWs(s, e)
  IN IF e = 0 THEN 0
     ELSE IF At(s, w) = "," THEN ElementsEnd(s, w + 1)
     ELSE IF At(s, w) = "]" THEN w + 1
     ELSE 0

\* a member of an object: a key, a colon, a value; then a comma and a
\* member more, or the brace
MembersEnd(s, i) ==
  LET k == SkipWs(s, i)
      e == IF At(s, k) = "\"" THEN StringEnd(s, k + 1) ELSE 0
      c == SkipWs(s, e)
      v == IF e # 0 /\ At(s, c) = ":" THEN ValueEnd(s, c + 1) ELSE 0
      w == SkipWs(s, v)
  IN IF v = 0 THEN 0
     ELSE IF At(s, w) = "," THEN MembersEnd(s, w + 1)
     ELSE IF At(s, w) = "}" THEN w + 1
     ELSE 0

ValueEnd(s, i) ==
  LET j == SkipWs(s, i) IN
  IF At(s, j) = "{"
    THEN IF At(s, SkipWs(s, j + 1)) = "}" THEN SkipWs(s, j + 1) + 1
         ELSE MembersEnd(s, j + 1)
  ELSE IF At(s, j) = "["
    THEN IF At(s, SkipWs(s, j + 1)) = "]" THEN SkipWs(s, j + 1) + 1
         ELSE ElementsEnd(s, j + 1)
  ELSE IF At(s, j) = "\"" THEN StringEnd(s, j + 1)
  ELSE IF At(s, j) = "-" \/ IsDigit(At(s, j), 10) THEN NumberEnd(s, j)
  ELSE LiteralEnd(s, j)

\* JSON.parse(String(v)) returns, as against throwing
JSONParses(v) ==
  LET s == StringOf(v)
      e == ValueEnd(s, 1)
  IN e # 0 /\ SkipWs(s, e) = Len(s) + 1

\* a request: the server it is sent to, its X-Payment header and the two
\* fields of its JSON body
Request(server, xPayment, userAddress, ticketCount) ==
  [server |-> server, xPayment |-> xPayment, userAddress |-> userAddress,
   ticketCount |-> ticketCount]

\* res.status(code).json({success, error}); status 0: no answer yet
Response(code, success, error) ==
  [status |-> code, success |-> success, error |-> error]
NoResponse == Response(0, FALSE, "")

\* variant: the middleware lets every request through
PaymentMissing_Never(req) == FALSE

\* if (!xPayment) of the middleware
PaymentMissing(req) == ~Truthy(req.xPayment)

\* the x402 middleware: 402 for a request without payment, next() otherwise
paymentMiddleware(req) ==
  IF PaymentMissing(req)
    THEN Response(402, FALSE, "Payment required")
    ELSE NoResponse

\* the handler up to its call of the facilitator: the three tests, each
\* answering 400
buyTicketChecks(req) ==
  IF ~Truthy(req.userAddress) \/ ~AddressAccepted(req.server, req.userAddress)
    THEN Response(400, FALSE,
                  IF req.server = "index" THEN "Invalid Ethereum address"
                                          ELSE "Invalid user address")
  ELSE IF CountRejected(parseInt(req.ticketCount))
    THEN Response(400, FALSE,
                  IF req.server = "index" THEN "Invalid ticket count (1-5)"
                  ELSE "Invalid ticket count (must be 1-5)")
  ELSE IF Truthy(req.xPayment) /\ ~JSONParses(req.xPayment)
    THEN Response(400, FALSE, "Invalid X-Payment format")
  ELSE NoResponse

\* the answer given before the facilitator is called, if any
EarlyResponse(req) ==
  IF paymentMiddleware(req) # NoResponse THEN paymentMiddleware(req)
  ELSE buyTicketChecks(req)

\* what the facilitator's answer can be: ok, not ok, or fetch throwing
FacilitatorOutcomes == {"ok", "not ok", "throws"}

\* the handler after await fetch(...): 502 unless facilitatorResponse.ok,
\* 500 from the catch when fetch threw
SettledResponse(outcome) ==
  CASE outcome = "ok" -> Response(200, TRUE, "")
    [] outcome = "not ok" ->
         Response(502, FALSE, "Payment processing failed")
    [] outcome = "throws" -> Response(500, FALSE, "fetch failed")

\* the server is idle
Idle ==
  [phase |-> "idle",
   request |-> Request("index", Undefined, Undefined, Undefined),
   response |-> NoResponse, contacted |-> FALSE, outcome |-> "none"]

\* POST /api/buy-ticket arrives and is handled up to the answer or up to
\* the await of the facilitator
ReceiveRequest(req) ==
  /\ http.phase = "idle"
  /\ http' = LET early == EarlyResponse(req) IN
             [phase |-> IF early = NoResponse THEN "awaiting" ELSE "answered",
              request |-> req, response |-> early,
              contacted |-> early = NoResponse, outcome |-> "none"]
  /\ UNCHANGED contract

\* the facilitator's answer arrives and the handler runs to its end
FacilitatorAnswers(outcome) ==
  /\ http.phase = "awaiting"
  /\ http' = [http EXCEPT !.phase = "answered",
                          !.response = SettledResponse(outcome),
                          !.outcome = outcome]
  /\ UNCHANGED contract

\* the answer is sent and the server is ready for the next request
AnswerSent ==
  /\ http.phase = "answered"
  /\ http' = Idle
  /\ UNCHANGED contract

\* ----------------------------------------------------------- specification
Init ==
  /\ userMachines = [a \in Addresses |-> <<>>]
  /\ nextTicketId = 1
  /\ totalMinted = 0
  /\ ticketsSold = 0
  /\ emissionCap = InitialEmissionCap
  /\ balanceOf = [a \in Addresses |-> 0]
  /\ now = 0
  /\ last = Receipt("constructor", "", <<>>)
  /\ status = NOT_ENTERED
  /\ callStack = <<>>
  /\ http = Idle

\* ticket-id lists of up to n ids, over the ids issued so far and the next,
\* not yet issued, one
TicketIdLists(n) == UNION {[1..k -> 1..nextTicketId] : k \in 0..n}

\* the ids of a set, in ascending order
RECURSIVE Ascending(_)
Ascending(S) ==
  IF S = {} THEN <<>>
  ELSE LET x == CHOOSE y \in S : \A z \in S : y <= z
       IN <<x>> \o Ascending(S \ {x})

\* the ticket-id lists of up to n ids that name no id twice, in ascending
\* order
TicketIdSets(n) ==
  {Ascending(S) : S \in {T \in SUBSET (1..nextTicketId) : Cardinality(T) <= n}}

CapArgs == {0, HARD_LIMIT + 1}
\* caps handed to updateEmissionCap in SpecCap: nothing, one payout, the
\* mining pool, the hard limit and one more
CapChoices == {0, INITIAL_OUTPUT, MINING_POOL, HARD_LIMIT, HARD_LIMIT + 1}
\* an issuance that would store more than max tickets is not explored
Fits(err, count, max) == err # "" \/ nextTicketId + count - 1 <= max

\* A reverted transaction leaves storage as it was, so a run that goes on
\* after one reaches no storage, and no receipt, that the runs without it do
\* not reach: a run is followed up to its first reverted transaction.
Running == last.err = ""

\* Two holders, few tickets, and block times around every boundary of a
\* ticket's life.
Next ==
  \/ /\ Running
     /\ \E s \in Addresses, c \in 0..MaxCount, p \in BOOLEAN :
             Fits(BuyTicketsErr(s, c, p), c, MaxTickets) /\ buyTickets(s, c, p)
  \/ /\ Running
     /\ \E s \in Addresses, u \in UserArgs, c \in 0..MaxCount, p \in BOOLEAN :
             Fits(BuyTicketsForErr(u, c, p), c, MaxTickets)
             /\ buyTicketsFor(s, u, c, p)
  \/ /\ Running
     /\ \E u \in UserArgs, c \in 0..MaxCount, f \in Addresses, p \in BOOLEAN :
             \E v \in {TICKET_PRICE * c, TICKET_PRICE * c + 1} :
               /\ Fits(BuyTicketsWithAuthorizationErr(u, c, f, v, p), c,
                       MaxTickets)
               /\ buyTicketsWithAuthorization(u, c, f, v, p)
  \/ /\ Running
     /\ \E s \in Addresses, ids \in TicketIdLists(MaxBatch) : claim(s, ids)
  \/ /\ Running
     /\ \E u \in UserArgs, ids \in TicketIdLists(MaxBatch) :
             claimFor(Owner, u, ids)
  \/ /\ Running
     /\ \E s \in Addresses, c \in CapArgs : updateEmissionCap(s, c)
  \/ /\ Running
     /\ \E t \in Instants : AdvanceTime(t)

Spec == Init /\ [][Next]_vars

\* One holder (Alice), enough tickets to fill the per-address limit and the
\* mining pool, and block times at the purchase and around the end of the
\* claim window.
NextDeep ==
  \/ /\ Running
     /\ \E c \in 0..MAX_TICKETS_PER_ADDRESS, p \in BOOLEAN :
             Fits(BuyTicketsErr(Alice, c, p), c, DeepTickets) /\ buyTickets(Alice, c, p)
  \/ /\ Running
     /\ \E u \in {Alice, ZERO}, c \in 0..MAX_TICKETS_PER_ADDRESS, p \in BOOLEAN :
             Fits(BuyTicketsForErr(u, c, p), c, DeepTickets)
             /\ buyTicketsFor(Owner, u, c, p)
  \/ /\ Running
     /\ \E u \in {Alice, ZERO}, c \in 0..MAX_TICKETS_PER_ADDRESS,
              f \in Addresses, p \in BOOLEAN :
             \E v \in {TICKET_PRICE * c, TICKET_PRICE * c + 1} :
               /\ Fits(BuyTicketsWithAuthorizationErr(u, c, f, v, p), c,
                       DeepTickets)
               /\ buyTicketsWithAuthorization(u, c, f, v, p)
  \/ /\ Running
     /\ \E ids \in TicketIdLists(DeepBatch) : claim(Alice, ids)
  \/ /\ Running
     /\ \E u \in {Alice, ZERO}, ids \in TicketIdLists(DeepBatch) :
             claimFor(Owner, u, ids)
  \/ /\ Running
     /\ \E s \in Addresses, c \in CapArgs : updateEmissionCap(s, c)
  \/ /\ Running
     /\ \E t \in DeepInstants : AdvanceTime(t)

SpecDeep == Init /\ [][NextDeep]_vars

\* One holder (Alice) calling buyTickets and claim herself, few tickets, and
\* block times that give many elapsed times: the first seconds, an uneven
\* time in mid-mining, the last second of mining, its end, and the end of
\* the claim window for tickets bought at 0 and at 1.
NextPayout ==
  \/ /\ Running
     /\ \E c \in 0..PayoutTickets, p \in BOOLEAN :
             Fits(BuyTicketsErr(Alice, c, p), c, PayoutTickets)
             /\ buyTickets(Alice, c, p)
  \/ /\ Running
     /\ \E ids \in TicketIdLists(PayoutBatch) : claim(Alice, ids)
  \/ /\ Running
     /\ \E t \in PayoutInstants : AdvanceTime(t)

SpecPayout == Init /\ [][NextPayout]_vars

\* One holder (Alice), enough tickets at full output to overfill the mining
\* pool, claimed one or two at a time, by herself or for her, at the
\* purchase and at the end of mining.
NextPool ==
  \/ /\ Running
     /\ \E c \in 0..PoolTickets, p \in BOOLEAN :
             Fits(BuyTicketsErr(Alice, c, p), c, PoolTickets)
             /\ buyTickets(Alice, c, p)
  \/ /\ Running
     /\ \E ids \in TicketIdLists(PoolBatch) : claim(Alice, ids)
  \/ /\ Running
     /\ \E ids \in TicketIdLists(PoolBatch) : claimFor(Owner, Alice, ids)
  \/ /\ Running
     /\ \E t \in PoolInstants : AdvanceTime(t)

SpecPool == Init /\ [][NextPool]_vars

\* One holder (Alice) calling buyTickets and claim herself, tickets claimed
\* one to three at a time in the order of their ids, half-way through mining
\* and at its end, so that totalMinted passes through every stage.
NextStages ==
  \/ /\ Running
     /\ \E c \in 0..StageTickets, p \in BOOLEAN :
             Fits(BuyTicketsErr(Alice, c, p), c, StageTickets)
             /\ buyTickets(Alice, c, p)
  \/ /\ Running
     /\ \E ids \in TicketIdSets(StageBatch) : claim(Alice, ids)
  \/ /\ Running
     /\ \E t \in StageInstants : AdvanceTime(t)

SpecStages == Init /\ [][NextStages]_vars

\* One holder (Alice) with few tickets, bought and claimed by herself or
\* for her by the owner, while the owner, and Alice, call updateEmissionCap
\* with caps below, at and above what is minted.
NextCap ==
  \/ /\ Running
     /\ \E c \in 0..CapTickets, p \in BOOLEAN :
             Fits(BuyTicketsErr(Alice, c, p), c, CapTickets)
             /\ buyTickets(Alice, c, p)
  \/ /\ Running
     /\ \E c \in 0..CapTickets, p \in BOOLEAN :
             Fits(BuyTicketsForErr(Alice, c, p), c, CapTickets)
             /\ buyTicketsFor(Owner, Alice, c, p)
  \/ /\ Running
     /\ \E c \in 0..CapTickets, p \in BOOLEAN :
             /\ Fits(BuyTicketsWithAuthorizationErr(
                        Alice, c, Alice, TICKET_PRICE * c, p), c, CapTickets)
             /\ buyTicketsWithAuthorization(
                  Alice, c, Alice, TICKET_PRICE * c, p)
  \/ /\ Running
     /\ \E ids \in TicketIdLists(CapBatch) : claim(Alice, ids)
  \/ /\ Running
     /\ \E ids \in TicketIdLists(CapBatch) : claimFor(Owner, Alice, ids)
  \/ /\ Running
     /\ \E s \in Addresses, c \in CapChoices : updateEmissionCap(s, c)
  \/ /\ Running
     /\ \E t \in CapInstants : AdvanceTime(t)

SpecCap == Init /\ [][NextCap]_vars

\* ticket counts asked for in SpecDelegate: none, one, a full allowance
DelegateCounts == {0, 1, MAX_TICKETS_PER_ADDRESS}

\* Two holders and enough tickets for one of them to be at the limit while
\* the other gets one.  The owner buys for itself, a full allowance at a
\* time, with buyTickets; Alice's
\* tickets are bought and claimed for her by the owner, with buyTicketsFor
\* and claimFor.
NextDelegate ==
  \/ /\ Running
     /\ \E c \in {0, MAX_TICKETS_PER_ADDRESS}, p \in BOOLEAN :
             Fits(BuyTicketsErr(Owner, c, p), c, DelegateTickets)
             /\ buyTickets(Owner, c, p)
  \/ /\ Running
     /\ \E c \in DelegateCounts, p \in BOOLEAN :
             Fits(BuyTicketsForErr(Alice, c, p), c, DelegateTickets)
             /\ buyTicketsFor(Owner, Alice, c, p)
  \/ /\ Running
     /\ \E ids \in TicketIdSets(DelegateBatch) : claimFor(Owner, Alice, ids)
  \/ /\ Running
     /\ \E t \in DelegateInstants : AdvanceTime(t)

SpecDelegate == Init /\ [][NextDelegate]_vars

\* amounts handed to mintForLP: nothing, one token unit, the whole
\* allocation and one more
LPAmounts == {0, 1, LP_ALLOCATION, LP_ALLOCATION + 1}

\* One holder (Alice) buying and claiming for herself, while the owner, and
\* Alice, call mintForLP.
NextLP ==
  \/ /\ Running
     /\ \E s \in Addresses, a \in LPAmounts : mintForLP(s, a)
  \/ /\ Running
     /\ \E c \in 0..LPTickets, p \in BOOLEAN :
             Fits(BuyTicketsErr(Alice, c, p), c, LPTickets)
             /\ buyTickets(Alice, c, p)
  \/ /\ Running
     /\ \E ids \in TicketIdLists(LPBatch) : claim(Alice, ids)
  \/ /\ Running
     /\ \E t \in LPInstants : AdvanceTime(t)

SpecLP == Init /\ [][NextLP]_vars

\* n times the same character
Repeated(c, n) == [i \in 1..n |-> c]

\* userAddress of the requests: none, the empty string, an address, one
\* with 0X for 0x, one without 0x, one too short, one with a letter that is
\* no digit, one too long, and an array holding an address
AddressSamples ==
  {Undefined,
   StringValue(<<>>),
   StringValue(<<"0", "x">> \o Repeated("a", AddressDigits)),
   StringValue(<<"0", "X">> \o Repeated("F", AddressDigits)),
   StringValue(Repeated("a", AddressDigits)),
   StringValue(<<"0", "x">> \o Repeated("a", AddressDigits - 1)),
   StringValue(<<"0", "x">> \o Repeated("a", AddressDigits - 1) \o <<"g">>),
   StringValue(<<"0", "x">> \o Repeated("a", AddressDigits + 1)),
   ArrayValue(<<"0", "x">> \o Repeated("a", AddressDigits))}

\* ticketCount of the requests: none, numbers in and around 1..5, and
\* texts: 3, 3x, x3, a blank and 2, 0x5, 0x10, 2.9, and an array holding 4
CountSamples ==
  {Undefined,
   NumberValue(-1), NumberValue(0), NumberValue(1), NumberValue(5),
   NumberValue(6),
   StringValue(<<"3">>), StringValue(<<"3", "x">>), StringValue(<<"x", "3">>),
   StringValue(<<" ", "2">>), StringValue(<<"0", "x", "5">>),
   StringValue(<<"0", "x", "1", "0">>), StringValue(<<"2", ".", "9">>),
   ArrayValue(<<"4">>)}

\* X-Payment of the requests: none, empty, and the texts {}, {"a":1},
\* {"a":[1,"b"]}, {"a":1 without its brace, pay, null
HeaderSamples ==
  {Undefined,
   StringValue(<<>>),
   StringValue(<<"{", "}">>),
   StringValue(<<"{", "\"", "a", "\"", ":", "1", "}">>),
   StringValue(<<"{", "\"", "a", "\"", ":", "[", "1", ",", "\"", "b", "\"",
                 "]", "}">>),
   StringValue(<<"{", "\"", "a", "\"", ":", "1">>),
   StringValue(<<"p", "a", "y">>),
   StringValue(<<"n", "u", "l", "l">>)}

\* The two servers, each handling one request after the other; the
\* facilitator answers ok or not ok, or the call to it fails.
NextHttp ==
  \/ /\ Running
     /\ \E server \in Servers, xPayment \in HeaderSamples,
           userAddress \in AddressSamples, ticketCount \in CountSamples :
          ReceiveRequest(Request(server, xPayment, userAddress, ticketCount))
  \/ /\ Running
     /\ \E outcome \in FacilitatorOutcomes : FacilitatorAnswers(outcome)
  \/ /\ Running
     /\ AnswerSent

SpecHttp == Init /\ [][NextHttp]_vars

\* Transactions split at their external call.  One holder (Alice); every
\* entry point is called from outside and, while a USDC transfer is under
\* way, from the token; the transfer succeeds or fails; the mint of an
\* ERC20 without hooks calls nobody and, with a receiver that is not the
\* zero address and a supply far below 2^256, does not fail.
NextCall ==
  \/ /\ Running
     /\ \E c \in 0..CallTickets :
             /\ Fits(BuyTicketsErr(Alice, c, TRUE), c, CallTickets)
             /\ BeginIssue("buyTickets", BuyTicketsErr(Alice, c, TRUE),
                           BuyTicketsErr(Alice, c, FALSE), Alice, c)
  \/ /\ Running
     /\ \E u \in {Alice, ZERO}, c \in 0..CallTickets :
             /\ Fits(BuyTicketsForErr(u, c, TRUE), c, CallTickets)
             /\ BeginIssue("buyTicketsFor", BuyTicketsForErr(u, c, TRUE),
                           BuyTicketsForErr(u, c, FALSE), u, c)
  \/ /\ Running
     /\ \E c \in 0..CallTickets :
             \E v \in {TICKET_PRICE * c, TICKET_PRICE * c + 1} :
               /\ Fits(BuyTicketsWithAuthorizationErr(Alice, c, Alice, v, TRUE),
                       c, CallTickets)
               /\ BeginIssue("buyTicketsWithAuthorization",
                     BuyTicketsWithAuthorizationErr(Alice, c, Alice, v, TRUE),
                     BuyTicketsWithAuthorizationErr(Alice, c, Alice, v, FALSE),
                     Alice, c)
  \/ /\ Running
     /\ \E ids \in TicketIdLists(CallBatch) :
             BeginClaim("claim", ClaimRun(Alice, ids), Alice, ids)
  \/ /\ Running
     /\ \E u \in {Alice, ZERO}, ids \in TicketIdLists(CallBatch) :
             BeginClaim("claimFor", ClaimForRun(u, ids), u, ids)
  \/ /\ Running
     /\ \E ok \in BOOLEAN : Return("issue", ok)
  \/ /\ Running
     /\ Return("claim", TRUE)
  \/ /\ Running
     /\ \E c \in 1..CallTickets :
             ReenterIssue("buyTickets", BuyTicketsErr(Alice, c, TRUE), Alice, c)
  \/ /\ Running
     /\ \E c \in 1..CallTickets :
             ReenterIssue("buyTicketsFor", BuyTicketsForErr(Alice, c, TRUE),
                          Alice, c)
  \/ /\ Running
     /\ \E c \in 1..CallTickets :
             ReenterIssue("buyTicketsWithAuthorization",
                          BuyTicketsWithAuthorizationErr(
                            Alice, c, Alice, TICKET_PRICE * c, TRUE),
                          Alice, c)
  \/ /\ Running
     /\ \E ids \in TicketIdLists(CallBatch) :
             ReenterClaim("claim", ClaimRun(Alice, ids), Alice)
  \/ /\ Running
     /\ \E ids \in TicketIdLists(CallBatch) :
             ReenterClaim("claimFor", ClaimForRun(Alice, ids), Alice)
  \/ /\ Running
     /\ callStack = <<>>
     /\ \E t \in CallInstants : AdvanceTime(t)

SpecCall == Init /\ [][NextCall]_vars

\* ------------------------------------------------------------- properties
MachinesOf(a) == {userMachines[a][i] : i \in 1..Len(userMachines[a])}
AllMachines == UNION {MachinesOf(a) : a \in Addresses}
ClaimedIds == {m.ticketId : m \in {x \in AllMachines : x.claimed}}
Expired(m) == now > m.purchasedAt + TOTAL_CLAIM_WINDOW

RECURSIVE SumOutputs(_)
SumOutputs(ms) ==
  IF ms = {} THEN 0
  ELSE LET m == CHOOSE x \in ms : TRUE IN m.output + SumOutputs(ms \ {m})

RECURSIVE SumAmounts(_)
SumAmounts(events) ==
  IF events = <<>> THEN 0 ELSE Head(events).amount + SumAmounts(Tail(events))

IsPurchase(receipt) ==
  receipt.events # <<>> /\ receipt.events[1].event = "TicketPurchased"
IsClaim(receipt) ==
  receipt.events # <<>> /\ receipt.events[1].event = "RewardsClaimed"

\* storage as it is, in the shape of IssueWrites and of SettleWrites
Unissued ==
  [userMachines |-> userMachines, nextTicketId |-> nextTicketId,
   ticketsSold |-> ticketsSold]
Unsettled ==
  [userMachines |-> userMachines, totalMinted |-> totalMinted,
   balanceOf |-> balanceOf]

\* a claim of these ids for this holder, direct or delegated, reverts and
\* writes nothing
ClaimRejected(user, ids) ==
  LET direct == ClaimRun(user, ids)
      delegated == ClaimForRun(user, ids)
  IN /\ direct.err # ""
     /\ SettleWrites(direct, user) = Unsettled
     /\ delegated.err # ""
     /\ SettleWrites(delegated, user) = Unsettled

\* an issuance of count tickets for this holder, by any of the three entry
\* points, reverts and writes nothing
IssuanceRejected(user, count, paid) ==
  /\ IssueWrites(BuyTicketsErr(user, count, paid), user, count) = Unissued
  /\ IssueWrites(BuyTicketsForErr(user, count, paid), user, count) = Unissued
  /\ IssueWrites(BuyTicketsWithAuthorizationErr(
                   user, count, user, TICKET_PRICE * count, paid),
                 user, count) = Unissued

\* C1 -- Pool cap: in every reachable state totalMinted <= MINING_POOL.
C1_PoolCap == totalMinted <= MINING_POOL

\* a claim was turned down because it would take totalMinted past the pool
C1_Witness == last.err = "Exceeds mining pool" /\ totalMinted > 0

\* C2 -- Active cap: every holder has at most MAX_TICKETS_PER_ADDRESS
\* tickets that are unclaimed and within their claim window, and an
\* issuance of count tickets with active + count above the limit is rejected.
C2_ActiveCap ==
  Running =>
    \A h \in Addresses :
      /\ getActiveTicketCount(h) <= MAX_TICKETS_PER_ADDRESS
      /\ \A c \in 1..(MAX_TICKETS_PER_ADDRESS + 1) :
           getActiveTicketCount(h) + c > MAX_TICKETS_PER_ADDRESS
             => IssuanceRejected(h, c, TRUE)

\* a holder at the limit was refused one more ticket
C2_Witness ==
  /\ last.err = "Exceeds max tickets per address"
  /\ getActiveTicketCount(Alice) = MAX_TICKETS_PER_ADDRESS

\* C3 -- Batch atomicity: in every state a transaction is sent from (the
\* states a reverted transaction ends in have the storage of one of them), a
\* claim whose id list holds an id that is not an
\* unclaimed ticket of the holder (unknown, another holder's, already
\* claimed) or that repeats an id, at any position, reverts as a whole: no
\* flag, no totalMinted change, nothing minted.
HasInvalidId(user, ids) ==
  \/ \E i \in 1..Len(ids) :
       ~\E m \in MachinesOf(user) : m.ticketId = ids[i] /\ ~m.claimed
  \/ \E i, j \in 1..Len(ids) : i < j /\ ids[i] = ids[j]

C3_BatchAtomicity ==
  Running =>
    \A user \in Addresses, ids \in TicketIdLists(MaxBatch) :
      HasInvalidId(user, ids) => ClaimRejected(user, ids)

\* a claim was turned down for an id while the holder had a ticket that a
\* claim on its own would have paid
C3_Witness ==
  /\ last.err = "Ticket not found or already claimed"
  /\ \E a \in Addresses, ids \in TicketIdLists(MaxBatch) :
       /\ Len(ids) = 2
       /\ ClaimRun(a, <<ids[1]>>).err = ""
       /\ HasInvalidId(a, ids)

\* C4 -- Claim idempotence: in every state a transaction is sent from, a
\* claim, direct or delegated, that includes the id of a ticket already
\* claimed reverts and writes nothing; no ticket is
\* paid twice, so totalMinted never exceeds the locked outputs of the
\* claimed tickets.
C4_ClaimIdempotent ==
  /\ Running =>
       \A user \in Addresses, ids \in TicketIdLists(MaxBatch) :
         (\E i \in 1..Len(ids) : ids[i] \in ClaimedIds)
           => ClaimRejected(user, ids)
  /\ totalMinted <= SumOutputs({m \in AllMachines : m.claimed})

\* a second claim of a claimed ticket was turned down
C4_Witness ==
  /\ last.err = "Ticket not found or already claimed"
  /\ ClaimedIds # {}
  /\ totalMinted = SumOutputs({m \in AllMachines : m.claimed})

\* C5 (as amended) -- A ticket's claimed flag starts false and is set at
\* most once: a stored ticket stays where it is, a claimed one stays
\* claimed, and a new one is unclaimed.
C5_ClaimedAtMostOnce ==
  [][\A a \in Addresses :
       /\ Len(userMachines'[a]) >= Len(userMachines[a])
       /\ \A i \in 1..Len(userMachines'[a]) :
            IF i <= Len(userMachines[a])
              THEN /\ userMachines'[a][i].ticketId
                        = userMachines[a][i].ticketId
                   /\ userMachines[a][i].claimed
                        => userMachines'[a][i].claimed
              ELSE ~userMachines'[a][i].claimed]_vars

\* one ticket was claimed, another ran out of its window unclaimed
C5_Witness ==
  /\ \E m \in AllMachines : m.claimed
  /\ \E m \in AllMachines : ~m.claimed /\ Expired(m)

\* C5 (as stated) -- every ticket's flag flips to true exactly once: a
\* ticket that can no longer be claimed, its window being over, is claimed.
C5_ClaimedExactlyOnce == \A m \in AllMachines : Expired(m) => m.claimed

\* C6 -- Reward fixed at issuance: a new ticket's output is the stage output
\* for totalMinted at its issuance, a stored ticket's output never changes,
\* and a claim pays from the ticket's stored output.
C6_RewardLocked ==
  [][/\ \A a \in Addresses : \A i \in 1..Len(userMachines[a]) :
          /\ i <= Len(userMachines'[a])
          /\ userMachines'[a][i].output = userMachines[a][i].output
     /\ \A a \in Addresses : \A i \in 1..Len(userMachines'[a]) :
          i > Len(userMachines[a])
            => userMachines'[a][i].output
                 = calculateStageOutput(StageOf(totalMinted))
     /\ IsClaim(last') =>
          \A k \in 1..Len(last'.events) :
            \E m \in MachinesOf(last'.events[k].miner) :
              /\ m.ticketId = last'.events[k].ticketId
              /\ last'.events[k].amount
                   = ActualOutput(m.output, now - m.purchasedAt)]_vars

\* a ticket was paid its stage-0 output by a claim made in a later stage
C6_Witness ==
  /\ IsClaim(last)
  /\ \E k \in 1..Len(last.events) : last.events[k].amount = INITIAL_OUTPUT
  /\ StageOf(totalMinted - SumAmounts(last.events)) > 0

\* C7 -- totalMinted never decreases and changes only in a claim that went
\* through, by the sum of the payouts due to the tickets of the batch, which
\* is what the holder's balance grows by.
PayoutDue(e) ==
  LET m == CHOOSE x \in MachinesOf(e.miner) : x.ticketId = e.ticketId
  IN ActualOutput(m.output, now - m.purchasedAt)

RECURSIVE SumDue(_)
SumDue(events) ==
  IF events = <<>> THEN 0 ELSE PayoutDue(Head(events)) + SumDue(Tail(events))

C7_MintedByClaimsOnly ==
  [][/\ totalMinted' >= totalMinted
     /\ IF IsClaim(last')
          THEN LET user == last'.events[1].miner
                   total == SumDue(last'.events)
               IN /\ totalMinted' = totalMinted + total
                  /\ balanceOf' = [balanceOf EXCEPT ![user] = @ + total]
                  /\ SumAmounts(last'.events) = total
          ELSE totalMinted' = totalMinted /\ balanceOf' = balanceOf]_vars

\* a batch of two tickets with different payouts was paid
C7_Witness ==
  /\ IsClaim(last)
  /\ Len(last.events) = 2
  /\ last.events[1].amount # last.events[2].amount
  /\ totalMinted = SumAmounts(last.events)

\* C8 -- A failed issuance leaves no partial state: with count < 1, or the
\* pool exhausted, or active + count above the limit, or the payment not
\* settled, each of the three entry points leaves the ledgers, nextTicketId
\* and ticketsSold as they were (totalMinted is not written by issuance).
C8_FailedIssuance ==
  Running =>
    \A h \in Addresses, c \in 0..(MAX_TICKETS_PER_ADDRESS + 1), p \in BOOLEAN :
      (\/ c < 1
       \/ totalMinted >= MINING_POOL
       \/ getActiveTicketCount(h) + c > MAX_TICKETS_PER_ADDRESS
       \/ ~p)
        => IssuanceRejected(h, c, p)

\* an issuance was refused because the pool was exhausted
C8_Witness ==
  /\ last.err = "Mining pool depleted"
  /\ totalMinted >= MINING_POOL
  /\ nextTicketId > 1

\* C9 -- A successful issuance appends exactly count tickets to the target
\* holder's ledger and to no other, all with the output of the stage at the
\* call, purchasedAt = now, claimed = false and consecutive ids from the
\* pre-call nextTicketId.
C9_Issuance ==
  [][IsPurchase(last') =>
       LET user == last'.events[1].buyer
           count == Len(last'.events)
           r == calculateStageOutput(StageOf(totalMinted))
       IN /\ count >= 1
          /\ userMachines' =
               [userMachines EXCEPT ![user] = @ \o
                  [i \in 1..count |->
                     [ticketId |-> nextTicketId + i - 1, purchasedAt |-> now,
                      expiresAt |-> now + MACHINE_LIFETIME, output |-> r,
                      claimed |-> FALSE]]]
          /\ nextTicketId' = nextTicketId + count
          /\ ticketsSold' = ticketsSold + count]_vars

\* two tickets were issued in one call, in a stage after the first
C9_Witness ==
  /\ IsPurchase(last)
  /\ Len(last.events) = 2
  /\ last.events[1].output < INITIAL_OUTPUT
  /\ last.events[2].output = last.events[1].output

\* C10 -- Ticket ids are unique across holders and increase in issuance
\* order; nextTicketId never decreases and is above every stored id.
UniqueIds ==
  /\ \A a \in Addresses : \A i, j \in 1..Len(userMachines[a]) :
       i < j => userMachines[a][i].ticketId < userMachines[a][j].ticketId
  /\ \A a, b \in Addresses :
       a # b => \A m \in MachinesOf(a), n \in MachinesOf(b) :
                  m.ticketId # n.ticketId
  /\ \A m \in AllMachines : m.ticketId < nextTicketId

C10_TicketIds ==
  [][/\ UniqueIds'
     /\ nextTicketId' >= nextTicketId
     /\ \A a \in Addresses : \A i \in 1..Len(userMachines'[a]) :
          i > Len(userMachines[a])
            => /\ userMachines'[a][i].ticketId >= nextTicketId
               /\ \A m \in AllMachines :
                    m.ticketId < userMachines'[a][i].ticketId]_vars

\* both holders have a ticket and an issuance has just failed
C10_Witness ==
  /\ \A a \in Addresses : userMachines[a] # <<>>
  /\ last.err = "USDC transfer failed"
  /\ nextTicketId = 3

\* C11 -- ticketsSold never decreases: an issuance that went through adds
\* exactly the number of tickets it issued, and every other step (a claim,
\* paid or reverted, a reverted issuance, the passing of time, an emission
\* cap update) leaves it as it was.
C11_TicketsSold ==
  [][/\ ticketsSold' >= ticketsSold
     /\ IF IsPurchase(last')
          THEN ticketsSold' = ticketsSold + Len(last'.events)
          ELSE ticketsSold' = ticketsSold]_vars

\* two tickets were sold in one call; since then one was claimed, the other
\* ran out of its window, and an issuance was turned down
C11_Witness ==
  /\ ticketsSold = 2
  /\ nextTicketId = 3
  /\ \E m \in AllMachines : m.claimed
  /\ \E m \in AllMachines : ~m.claimed /\ Expired(m)
  /\ last.err = "Invalid count"
  /\ \E a \in Addresses : Len(userMachines[a]) = 2

\* C12 -- Each holder's ledger is append-only: no step removes or reorders a
\* stored ticket or changes its id, purchase time, expiry or output; claimed
\* and expired tickets stay in the ledger and are the ones the active count
\* leaves out.
C12_AppendOnly ==
  [][\A a \in Addresses :
       /\ Len(userMachines'[a]) >= Len(userMachines[a])
       /\ \A i \in 1..Len(userMachines[a]) :
            /\ userMachines'[a][i].ticketId = userMachines[a][i].ticketId
            /\ userMachines'[a][i].purchasedAt = userMachines[a][i].purchasedAt
            /\ userMachines'[a][i].expiresAt = userMachines[a][i].expiresAt
            /\ userMachines'[a][i].output = userMachines[a][i].output
       /\ ActiveCountAt(userMachines'[a], now')
            = Len(userMachines'[a])
              - Cardinality({i \in 1..Len(userMachines'[a]) :
                               \/ userMachines'[a][i].claimed
                               \/ now' > userMachines'[a][i].purchasedAt
                                           + TOTAL_CLAIM_WINDOW})]_vars

\* a holder's ledger keeps a claimed ticket and an expired one, neither of
\* them active
C12_Witness ==
  \E a \in Addresses :
    /\ Len(userMachines[a]) = 2
    /\ userMachines[a][1].claimed
    /\ ~userMachines[a][2].claimed /\ Expired(userMachines[a][2])
    /\ getActiveTicketCount(a) = 0

\* the ticket a RewardsClaimed event is about, and the time it had been
\* mining for when it was claimed
MachineOf(e) == CHOOSE x \in MachinesOf(e.miner) : x.ticketId = e.ticketId
ElapsedAt(e) == e.timestamp - MachineOf(e).purchasedAt
\* the payments of the latest transaction
Paid ==
  IF IsClaim(last) THEN {last.events[k] : k \in 1..Len(last.events)} ELSE {}

\* C16 (as amended) -- A ticket claimed with 0 <= elapsed < MACHINE_LIFETIME
\* is paid no more than floor(output * elapsed / MACHINE_LIFETIME) and less
\* than that by at most output / 10000 rounded up, the elapsed share being
\* cut to a whole number of 1/10000 first; at elapsed = MACHINE_LIFETIME - 1
\* it is paid floor(output * 9999 / 10000).
C16_ProportionalToBasisPoint ==
  \A e \in Paid :
    ElapsedAt(e) < MACHINE_LIFETIME =>
      LET output == MachineOf(e).output
          exact == MulDiv(output, ElapsedAt(e), MACHINE_LIFETIME)
      IN /\ ElapsedAt(e) >= 0
         /\ e.amount <= exact
         /\ exact - e.amount <= (output + 9999) \div 10000
         /\ ElapsedAt(e) = MACHINE_LIFETIME - 1
              => e.amount = MulDiv(output, 9999, 10000)

\* a ticket claimed in the last second of mining was paid 99.99% of its
\* output, less than the exact proportion
C16_Witness ==
  \E e \in Paid :
    /\ ElapsedAt(e) = MACHINE_LIFETIME - 1
    /\ e.amount = MulDiv(MachineOf(e).output, 9999, 10000)
    /\ e.amount
         < MulDiv(MachineOf(e).output, MACHINE_LIFETIME - 1, MACHINE_LIFETIME)

\* C16 (as stated) -- a ticket claimed with elapsed < MACHINE_LIFETIME is
\* paid floor(output * elapsed / MACHINE_LIFETIME).
C16_ExactProportion ==
  \A e \in Paid :
    ElapsedAt(e) < MACHINE_LIFETIME
      => e.amount = MulDiv(MachineOf(e).output, ElapsedAt(e), MACHINE_LIFETIME)

\* C17 -- Time-ratio arithmetic has the fixed denominator 10000 and rounds
\* down at each step: a ticket claimed with elapsed < MACHINE_LIFETIME is
\* paid floor(output * floor(elapsed * 10000 / MACHINE_LIFETIME) / 10000).
C17_TwoStepFloor ==
  \A e \in Paid :
    ElapsedAt(e) < MACHINE_LIFETIME
      => e.amount
           = MulDiv(MachineOf(e).output,
                    (ElapsedAt(e) * 10000) \div MACHINE_LIFETIME, 10000)

\* a ticket claimed 12345 s after its purchase (57.15...% of the mining
\* time) was paid 5715/10000 of its output
C17_Witness ==
  \E e \in Paid :
    /\ ElapsedAt(e) = 12345
    /\ e.amount = MulDiv(MachineOf(e).output, 5715, 10000)
    /\ e.amount < MulDiv(MachineOf(e).output, 12345, MACHINE_LIFETIME)

\* C18 -- A ticket claimed with MACHINE_LIFETIME <= elapsed <=
\* TOTAL_CLAIM_WINDOW is paid its whole locked output, the same over all of
\* the grace period; no ticket is paid more than its output, and one paid
\* less was claimed with elapsed < MACHINE_LIFETIME.
C18_FullAfterMaturity ==
  \A e \in Paid :
    /\ ElapsedAt(e) <= TOTAL_CLAIM_WINDOW
    /\ e.amount <= MachineOf(e).output
    /\ ElapsedAt(e) >= MACHINE_LIFETIME => e.amount = MachineOf(e).output
    /\ e.amount < MachineOf(e).output => ElapsedAt(e) < MACHINE_LIFETIME

\* one batch paid two tickets in full: one at the very end of its claim
\* window, one earlier in its grace period
C18_Witness ==
  \E e, f \in Paid :
    /\ ElapsedAt(e) = TOTAL_CLAIM_WINDOW
    /\ ElapsedAt(f) >= MACHINE_LIFETIME /\ ElapsedAt(f) < TOTAL_CLAIM_WINDOW
    /\ e.amount = MachineOf(e).output
    /\ f.amount = MachineOf(f).output

\* C19 -- Claim window: in every state a transaction is sent from, a claim
\* of one unclaimed ticket at now = purchasedAt + TOTAL_CLAIM_WINDOW that
\* the pool has room for goes through and pays the whole output, and a
\* claim, direct or delegated, whose list holds an unclaimed ticket of the
\* holder with now > purchasedAt + TOTAL_CLAIM_WINDOW (or now < purchasedAt)
\* reverts as a whole: no flag set, nothing minted.
OutsideWindow(m) ==
  now > m.purchasedAt + TOTAL_CLAIM_WINDOW \/ now < m.purchasedAt

C19_ClaimWindow ==
  Running =>
    \A user \in Addresses :
      /\ \A ids \in TicketIdLists(PayoutBatch) :
           (\E i \in 1..Len(ids) : \E m \in MachinesOf(user) :
              m.ticketId = ids[i] /\ ~m.claimed /\ OutsideWindow(m))
             => ClaimRejected(user, ids)
      /\ \A m \in MachinesOf(user) :
           (/\ ~m.claimed
            /\ now = m.purchasedAt + TOTAL_CLAIM_WINDOW
            /\ totalMinted + m.output <= MINING_POOL)
             => LET r == ClaimRun(user, <<m.ticketId>>)
                IN /\ r.err = ""
                   /\ r.payouts = <<m.output>>
                   /\ SettleWrites(r, user).totalMinted
                        = totalMinted + m.output

\* a batch was turned down for a ticket one second past its window while
\* the holder's other ticket was exactly at the end of its own
C19_Witness ==
  /\ last.err = "Claim period expired (30h limit)"
  /\ \E m, n \in MachinesOf(Alice) :
       /\ ~m.claimed /\ now = m.purchasedAt + TOTAL_CLAIM_WINDOW
       /\ ~n.claimed /\ now = n.purchasedAt + TOTAL_CLAIM_WINDOW + 1

\* C20 -- In every state a transaction is sent from, a claim of distinct
\* unclaimed tickets of the holder, all within their window, whose payouts
\* together would take totalMinted past MINING_POOL reverts as a whole: no
\* clipped amount is minted, no ticket is marked, totalMinted stays; and a
\* batch of such tickets whose payouts fit is paid in full, so the tickets of
\* a batch turned down can still be claimed in a smaller one.
Claimable(user, ids) ==
  /\ ~HasInvalidId(user, ids)
  /\ \A i \in 1..Len(ids) : \A m \in MachinesOf(user) :
       m.ticketId = ids[i] => ~OutsideWindow(m)

BatchTotal(user, ids) ==
  SumSeq([i \in 1..Len(ids) |->
            LET m == CHOOSE x \in MachinesOf(user) : x.ticketId = ids[i]
            IN ActualOutput(m.output, now - m.purchasedAt)])

C20_PoolAbort ==
  Running =>
    \A user \in Addresses, ids \in TicketIdLists(PoolBatch) :
      Claimable(user, ids) =>
        LET total == BatchTotal(user, ids) IN
        /\ totalMinted + total > MINING_POOL => ClaimRejected(user, ids)
        /\ (total > 0 /\ totalMinted + total <= MINING_POOL) =>
             LET r == ClaimRun(user, ids)
             IN /\ r.err = ""
                /\ SettleWrites(r, user).totalMinted = totalMinted + total
                /\ SettleWrites(r, user).balanceOf[user]
                     = balanceOf[user] + total

\* a batch of two was turned down for the pool while either of its tickets
\* alone would be paid
C20_Witness ==
  /\ last.err = "Exceeds mining pool"
  /\ totalMinted < MINING_POOL
  /\ \E ids \in TicketIdLists(PoolBatch) :
       /\ Len(ids) = 2
       /\ Claimable(Alice, ids)
       /\ totalMinted + BatchTotal(Alice, ids) > MINING_POOL
       /\ ClaimRun(Alice, <<ids[1]>>).err = ""
       /\ ClaimRun(Alice, <<ids[2]>>).err = ""

\* C13 -- Reentrancy guard: the guard is taken exactly while a call is at
\* its external call; as long as it is, every issuance (buyTickets,
\* buyTicketsFor, buyTicketsWithAuthorization) and every claim (claim,
\* claimFor) reverts and writes nothing, whatever it is called with, and
\* while the USDC transfer of an issuance is under way the storage is what
\* it was when the transfer began, however many calls came back.
C13_ReentrancyGuard ==
  /\ status = ENTERED <=> callStack # <<>>
  /\ status = ENTERED =>
       /\ \A u \in Addresses, c \in 0..CallTickets, p \in BOOLEAN :
            IssuanceRejected(u, c, p)
       /\ \A u \in Addresses, ids \in TicketIdLists(CallBatch) :
            ClaimRejected(u, ids)
       /\ callStack[1].kind = "issue" => Storage = callStack[1].saved

\* during the transfer of an issuance each of the five entry points was
\* called back, among them a claim whose body would have paid a ticket
C13_Witness ==
  /\ callStack # <<>>
  /\ callStack[1].inner = {"buyTickets", "buyTicketsFor",
                           "buyTicketsWithAuthorization", "claim", "claimFor"}
  /\ \E ids \in TicketIdLists(CallBatch) : ClaimBody(Alice, ids).err = ""
  /\ Storage = callStack[1].saved

\* the call's own writes are in storage: the tickets of an issuance
\* appended and the counters advanced; the tickets of a claim marked and
\* totalMinted advanced
LocallyMutated(frame) ==
  IF frame.kind = "issue"
    THEN /\ Len(userMachines[frame.user])
              = Len(frame.saved.userMachines[frame.user]) + frame.count
         /\ nextTicketId = frame.saved.nextTicketId + frame.count
         /\ ticketsSold = frame.saved.ticketsSold + frame.count
    ELSE /\ \A i \in 1..Len(frame.ticketIds) :
              \E m \in MachinesOf(frame.user) :
                m.ticketId = frame.ticketIds[i] /\ m.claimed
         /\ totalMinted = frame.saved.totalMinted + SumSeq(frame.payouts)

\* C14 (as stated) -- In every mutating call the external transfer or mint
\* is invoked after the call's local writes: whenever a call is at its
\* external call, its tickets are appended (or marked) and its counters
\* advanced.
C14_EffectsBeforeInteraction ==
  callStack # <<>> => LocallyMutated(callStack[1])

\* C14 (in the code) -- A claim is at its mint with its writes made; an
\* issuance is at its USDC transfer with the storage as it was at the start
\* of the call, its writes coming after the transfer.
C14_OrderInCode ==
  callStack # <<>> =>
    IF callStack[1].kind = "claim"
      THEN LocallyMutated(callStack[1])
      ELSE Storage = callStack[1].saved /\ ~LocallyMutated(callStack[1])

\* buyTickets(2) is at its USDC transfer and no ticket is stored yet
C14_Witness ==
  /\ callStack # <<>>
  /\ callStack[1].op = "buyTickets"
  /\ callStack[1].count = 2
  /\ userMachines[Alice] = <<>>
  /\ nextTicketId = 1
  /\ ticketsSold = 0

\* C15 -- If the external call fails (the USDC transfer of an issuance, the
\* mint of a claim) the call reverts, emits nothing and leaves the storage
\* as it was at its start: no ticket appended, no id used, no flag set,
\* ticketsSold, totalMinted and the balances as before.
C15_ExternalFailureAborts ==
  callStack # <<>> =>
    /\ ReturnWrites(callStack[1], FALSE) = callStack[1].saved
    /\ ReturnReceipt(callStack[1], FALSE).err # ""
    /\ ReturnReceipt(callStack[1], FALSE).events = <<>>

\* the transfer of an issuance failed, after one that had gone through
C15_Witness ==
  /\ last.err \in {"USDC transfer failed", "transferWithAuthorization reverted"}
  /\ callStack = <<>>
  /\ status = NOT_ENTERED
  /\ Len(userMachines[Alice]) = 1
  /\ nextTicketId = 2
  /\ ticketsSold = 1

\* C21 -- A claim whose batch totals 0 reverts and writes nothing: a claim
\* with an empty id list, and a claim of unclaimed tickets within their
\* window none of which has earned anything yet.
C21_ZeroTotalFails ==
  Running =>
    \A user \in Addresses :
      /\ ClaimRejected(user, <<>>)
      /\ ClaimRun(user, <<>>).err = "No rewards to claim"
      /\ \A ids \in TicketIdLists(PayoutBatch) :
           (Claimable(user, ids) /\ BatchTotal(user, ids) = 0)
             => /\ ClaimRejected(user, ids)
                /\ ClaimRun(user, ids).err = "No rewards to claim"

\* a claim was turned down for paying nothing, at a block later than the
\* purchase of two tickets that a claim could name
C21_Witness ==
  /\ last.err = "No rewards to claim"
  /\ \E ids \in TicketIdLists(PayoutBatch) :
       /\ Len(ids) = 2
       /\ Claimable(Alice, ids)
       /\ BatchTotal(Alice, ids) = 0
       /\ \A m \in MachinesOf(Alice) : now > m.purchasedAt

\* amounts around every multiple of STAGE_SIZE, up to the hard limit
StagePoints ==
  {0, HARD_LIMIT}
    \cup UNION {{k * STAGE_SIZE - 1, k * STAGE_SIZE, k * STAGE_SIZE + 1} :
                  k \in 1..7}

\* the stage is floor(minted / STAGE_SIZE) below 5 * STAGE_SIZE and 5 from
\* there on
StageAt(minted, stage) ==
  /\ stage \in 0..5
  /\ minted < 5 * STAGE_SIZE
       => stage * STAGE_SIZE <= minted /\ minted < (stage + 1) * STAGE_SIZE
  /\ minted >= 5 * STAGE_SIZE => stage = 5

StageLaw ==
  /\ \A m \in StagePoints : StageAt(m, StageOf(m))
  /\ \A m1, m2 \in StagePoints : m1 <= m2 => StageOf(m1) <= StageOf(m2)

\* C22 -- Stage monotonicity: StageOf is non-decreasing, is
\* floor(minted / STAGE_SIZE) below 5 * STAGE_SIZE and 5 from there on (at
\* MINING_POOL and beyond as well), and along every run the current stage
\* never goes down.
C22_StageMonotone ==
  [][/\ StageLaw
     /\ StageAt(totalMinted', getCurrentStage')
     /\ getCurrentStage' >= getCurrentStage]_vars

\* the pool has been paid out in full and the stage is held at 5
C22_Witness ==
  /\ IsClaim(last)
  /\ totalMinted = 6 * STAGE_SIZE
  /\ getCurrentStage = 5

\* stages given to calculateStageOutput
StageArgs == 0..9

\* C23 -- Reward halving: calculateStageOutput(0) is INITIAL_OUTPUT, each of
\* the stages 1..5 gives the floor of half the one before, every stage from
\* 6 on gives 0, and every stored ticket holds the output of one of the
\* stages 0..5.
C23_RewardHalving ==
  /\ calculateStageOutput(0) = INITIAL_OUTPUT
  /\ \A s \in 0..4 :
       calculateStageOutput(s + 1) = calculateStageOutput(s) \div 2
  /\ \A s \in StageArgs : s >= 6 => calculateStageOutput(s) = 0
  /\ \A m \in AllMachines :
       \E s \in 0..5 : m.output = INITIAL_OUTPUT \div (2 ^ s)

\* a ticket was bought in stage 5, at a 32nd of the initial output
C23_Witness ==
  /\ IsPurchase(last)
  /\ last.events[1].stage = 5
  /\ last.events[1].output = INITIAL_OUTPUT \div 32
  /\ \E m \in MachinesOf(Alice) : m.output = INITIAL_OUTPUT \div 32

\* Alice holds exactly three tickets, all bought at 0 and none claimed
ThreeAtZero ==
  /\ Len(userMachines[Alice]) = 3
  /\ \A m \in MachinesOf(Alice) : m.purchasedAt = 0 /\ ~m.claimed

\* C29 -- From totalMinted = 0, three tickets issued to a holder at time 0
\* each lock INITIAL_OUTPUT at stage 0; a claim of the three in one batch at
\* MACHINE_LIFETIME goes through, pays INITIAL_OUTPUT for each, raises
\* totalMinted and the holder's balance by 3 * INITIAL_OUTPUT and leaves the
\* holder with no active ticket.
C29_ThreeTickets ==
  [][/\ (totalMinted = 0 /\ now = 0 /\ userMachines[Alice] = <<>>
           /\ IsPurchase(last') /\ Len(last'.events) = 3)
          => /\ ThreeAtZero'
             /\ \A m \in MachinesOf(Alice)' : m.output = INITIAL_OUTPUT
             /\ \A i \in 1..3 :
                  last'.events[i].stage = 0
                  /\ last'.events[i].output = INITIAL_OUTPUT
     /\ (totalMinted = 0 /\ now = MACHINE_LIFETIME /\ ThreeAtZero)
          => /\ \A ids \in TicketIdLists(StageBatch) :
                  (Len(ids) = 3 /\ ~HasInvalidId(Alice, ids))
                    => ClaimRun(Alice, ids).err = ""
             /\ (IsClaim(last') /\ Len(last'.events) = 3)
                  => /\ \A i \in 1..3 : last'.events[i].amount = INITIAL_OUTPUT
                     /\ totalMinted' = 3 * INITIAL_OUTPUT
                     /\ balanceOf'[Alice] = balanceOf[Alice] + 3 * INITIAL_OUTPUT
                     /\ getActiveTicketCount(Alice)' = 0]_vars

\* the three tickets bought at 0 have been claimed in one batch at the end
\* of mining
C29_Witness ==
  /\ IsClaim(last)
  /\ Len(last.events) = 3
  /\ now = MACHINE_LIFETIME
  /\ Len(userMachines[Alice]) = 3
  /\ \A m \in MachinesOf(Alice) : m.purchasedAt = 0 /\ m.claimed
  /\ totalMinted = 3 * INITIAL_OUTPUT
  /\ balanceOf[Alice] = 3 * INITIAL_OUTPUT
  /\ getActiveTicketCount(Alice) = 0

IsCapUpdate(receipt) ==
  receipt.events # <<>> /\ receipt.events[1].event = "EmissionCapUpdated"

\* C24 (as amended) -- emissionCap never exceeds HARD_LIMIT; totalMinted is
\* at most emissionCap right after every update of the cap that goes
\* through, and in every state in which the cap is at least MINING_POOL.
C24_CapAtUpdate ==
  [][/\ emissionCap <= HARD_LIMIT
     /\ emissionCap' <= HARD_LIMIT
     /\ IsCapUpdate(last') => totalMinted' <= emissionCap'
     /\ emissionCap' >= MINING_POOL => totalMinted' <= emissionCap']_vars

\* C24 (as stated) -- in every reachable state
\* totalMinted <= emissionCap <= HARD_LIMIT.
C24_MintedWithinCap == totalMinted <= emissionCap /\ emissionCap <= HARD_LIMIT

\* a claim has taken totalMinted past a cap that had been lowered to what
\* was minted before it
C24_Witness ==
  /\ IsClaim(last)
  /\ emissionCap = INITIAL_OUTPUT
  /\ totalMinted > emissionCap

\* C25 -- updateEmissionCap goes through exactly when the caller is the
\* owner and totalMinted <= newCap <= HARD_LIMIT; when it goes through it
\* sets emissionCap to newCap and leaves tickets, totalMinted, ticketsSold,
\* nextTicketId and balances alone; when it reverts it changes nothing; and
\* nothing else changes emissionCap.
C25_UpdateEmissionCap ==
  [][/\ \A s \in Addresses, c \in CapChoices :
          UpdateEmissionCapErr(s, c) = ""
            <=> (s = Owner /\ totalMinted <= c /\ c <= HARD_LIMIT)
     /\ IsCapUpdate(last')
          => /\ emissionCap' = last'.events[1].newCap
             /\ last'.events[1].oldCap = emissionCap
             /\ totalMinted <= emissionCap'
             /\ emissionCap' <= HARD_LIMIT
             /\ ledger' = ledger
             /\ now' = now
     /\ last'.err \in {"OwnableUnauthorizedAccount", "Below minted",
                       "Exceeds hard limit"}
          => /\ emissionCap' = emissionCap
             /\ ledger' = ledger
             /\ now' = now
     /\ emissionCap' # emissionCap => IsCapUpdate(last')]_vars

\* the owner has set the cap to exactly what is minted
C25_Witness ==
  /\ IsCapUpdate(last)
  /\ totalMinted > 0
  /\ emissionCap = totalMinted
  /\ last.events[1].oldCap # emissionCap

\* what the requires of an issuance come to, without the emission cap
IssuanceGoesThrough(h, c, p) ==
  /\ c > 0
  /\ totalMinted < MINING_POOL
  /\ Cardinality({i \in 1..Len(userMachines[h]) :
                    /\ ~userMachines[h][i].claimed
                    /\ ~Expired(userMachines[h][i])}) + c
       <= MAX_TICKETS_PER_ADDRESS
  /\ p

\* what the requires of a claim come to, without the emission cap
ClaimGoesThrough(h, ids) ==
  /\ ids # <<>>
  /\ Claimable(h, ids)
  /\ BatchTotal(h, ids) > 0
  /\ totalMinted + BatchTotal(h, ids) <= MINING_POOL

\* C26 -- The emission cap is not enforced on issuance or claim: whatever
\* emissionCap is (at, above or below totalMinted), the outcome of every
\* issuance and of every claim, direct or delegated, is the one given by
\* the tickets, totalMinted and the block time alone (success or failure,
\* tickets stored, payouts, totalMinted written), so two states that differ
\* in emissionCap only give the same outcomes; and no issuance and no claim
\* changes emissionCap.
C26_CapNotEnforced ==
  [][/\ \A h \in Addresses, c \in 0..CapTickets, p \in BOOLEAN :
          /\ BuyTicketsErr(h, c, p) = "" <=> IssuanceGoesThrough(h, c, p)
          /\ BuyTicketsForErr(h, c, p) = "" <=> IssuanceGoesThrough(h, c, p)
          /\ BuyTicketsWithAuthorizationErr(h, c, h, TICKET_PRICE * c, p) = ""
               <=> IssuanceGoesThrough(h, c, p)
          /\ IssuanceGoesThrough(h, c, p) =>
               LET w == IssueWrites(BuyTicketsErr(h, c, p), h, c) IN
               /\ Len(w.userMachines[h]) = Len(userMachines[h]) + c
               /\ \A i \in 1..c :
                    w.userMachines[h][Len(userMachines[h]) + i].output
                      = calculateStageOutput(StageOf(totalMinted))
     /\ \A h \in Addresses, ids \in TicketIdSets(CapBatch) :
          LET r == ClaimRun(h, ids) IN
          /\ r.err = "" <=> ClaimGoesThrough(h, ids)
          /\ ClaimForRun(h, ids) = r
          /\ ClaimGoesThrough(h, ids) =>
               /\ SumSeq(r.payouts) = BatchTotal(h, ids)
               /\ SettleWrites(r, h).totalMinted
                    = totalMinted + BatchTotal(h, ids)
     /\ (IsPurchase(last') \/ IsClaim(last')) => emissionCap' = emissionCap
     /\ ~IsCapUpdate(last') => emissionCap' = emissionCap]_vars

\* with the cap at 0, tickets were issued and a claim has minted
C26_Witness ==
  /\ IsClaim(last)
  /\ emissionCap = 0
  /\ totalMinted > 0
  /\ \A m \in MachinesOf(Alice) : m.claimed
  /\ Len(userMachines[Alice]) = 2

\* C27 -- buyTicketsFor for a beneficiary other than the payer tests the
\* beneficiary's active tickets against the limit and pushes to the
\* beneficiary's array only: the payer's array and active count are as
\* before, a payer with a full allowance can still buy for another holder,
\* and a beneficiary who would pass the limit is refused whatever the payer
\* holds.
C27_DelegatedIssuance ==
  Running =>
    \A payer \in Addresses : \A user \in Addresses \ {payer} :
    \A c \in 1..MAX_TICKETS_PER_ADDRESS, p \in BOOLEAN :
      LET err == BuyTicketsForErr(user, c, p)
          w == IssueWrites(err, StoredFor(payer, user), c)
      IN /\ w.userMachines[payer] = userMachines[payer]
         /\ ActiveCountAt(w.userMachines[payer], now)
              = getActiveTicketCount(payer)
         /\ getActiveTicketCount(user) + c > MAX_TICKETS_PER_ADDRESS
              => err # "" /\ w = Unissued
         /\ (PoolOpen /\ p
               /\ getActiveTicketCount(user) + c <= MAX_TICKETS_PER_ADDRESS)
              => /\ err = ""
                 /\ Len(w.userMachines[user]) = Len(userMachines[user]) + c
                 /\ ActiveCountAt(w.userMachines[user], now)
                      = getActiveTicketCount(user) + c

\* the owner, holding a full allowance of active tickets, has bought one
\* for Alice
C27_Witness ==
  /\ IsPurchase(last)
  /\ last.events[1].buyer = Alice
  /\ getActiveTicketCount(Owner) = MAX_TICKETS_PER_ADDRESS
  /\ Len(userMachines[Owner]) = MAX_TICKETS_PER_ADDRESS
  /\ Len(userMachines[Alice]) = 1

\* C28 -- claimFor(user, ids), whoever calls it, flags tickets of user only
\* and mints the whole batch total to user: the caller's tickets and balance
\* are as before, and the call is decided as user's own claim would be,
\* without regard to the caller.
C28_DelegatedClaim ==
  Running =>
    \A caller \in Addresses : \A user \in Addresses \ {caller} :
    \A ids \in TicketIdSets(DelegateBatch) :
      LET r == ClaimForRun(user, ids)
          w == ClaimForWrites(caller, user, ids)
      IN /\ w.userMachines[caller] = userMachines[caller]
         /\ w.balanceOf[caller] = balanceOf[caller]
         /\ r = ClaimRun(user, ids)
         /\ r.err = "" =>
              /\ w.balanceOf[user] = balanceOf[user] + BatchTotal(user, ids)
              /\ w.totalMinted = totalMinted + BatchTotal(user, ids)
              /\ Len(w.userMachines[user]) = Len(userMachines[user])
              /\ \A i \in 1..Len(userMachines[user]) :
                   w.userMachines[user][i].claimed
                     <=> \/ userMachines[user][i].claimed
                         \/ \E k \in 1..Len(ids) :
                              ids[k] = userMachines[user][i].ticketId

\* the owner, holding tickets of its own that a claim would pay, has
\* claimed a ticket for Alice: Alice has the tokens, the owner none
C28_Witness ==
  /\ IsClaim(last)
  /\ last.events[1].miner = Alice
  /\ balanceOf[Alice] = SumAmounts(last.events)
  /\ balanceOf[Owner] = 0
  /\ \E m \in MachinesOf(Owner) : ClaimRun(Owner, <<m.ticketId>>).err = ""

\* the tickets of a holder that are neither claimed nor past their deadline
Counting(h) ==
  {i \in 1..Len(userMachines[h]) :
     ~userMachines[h][i].claimed /\ ~Expired(userMachines[h][i])}

\* C30 -- The active count is recomputed from the block time on every call.
\* While a holder has MAX_TICKETS_PER_ADDRESS tickets that are unclaimed and
\* not past their claim deadline, every further issuance for that holder is
\* refused, with the capacity error of the entry point whenever the pool is
\* still open; once the block time is past the deadline of one of them,
\* with no claim made, that ticket no longer counts and an issuance of one
\* ticket for the holder goes through.
C30_CapacityOverTime ==
  Running =>
    \A h \in Addresses :
      /\ getActiveTicketCount(h) = Cardinality(Counting(h))
      /\ Cardinality(Counting(h)) = MAX_TICKETS_PER_ADDRESS =>
           \A c \in 1..MAX_TICKETS_PER_ADDRESS, p \in BOOLEAN :
             /\ IssuanceRejected(h, c, p)
             /\ PoolOpen =>
                  /\ BuyTicketsErr(h, c, p) = "Exceeds max tickets per address"
                  /\ BuyTicketsForErr(h, c, p) = "User exceeds max tickets"
                  /\ BuyTicketsWithAuthorizationErr(
                       h, c, h, TICKET_PRICE * c, p)
                       = "User exceeds max tickets"
      /\ (Cardinality(Counting(h)) < MAX_TICKETS_PER_ADDRESS /\ PoolOpen) =>
           /\ BuyTicketsErr(h, 1, TRUE) = ""
           /\ BuyTicketsForErr(h, 1, TRUE) = ""
           /\ BuyTicketsWithAuthorizationErr(h, 1, h, TICKET_PRICE, TRUE) = ""
           /\ Len(IssueWrites("", h, 1).userMachines[h])
                = Len(userMachines[h]) + 1

\* Alice, with five unclaimed tickets of which the first is past its
\* deadline, has been issued a sixth
C30_Witness ==
  /\ IsPurchase(last)
  /\ last.events[1].ticketId = 6
  /\ Len(userMachines[Alice]) = 6
  /\ \A m \in MachinesOf(Alice) : ~m.claimed
  /\ Expired(userMachines[Alice][1])
  /\ getActiveTicketCount(Alice) = MAX_TICKETS_PER_ADDRESS

\* C33 -- buyTicketsWithAuthorization goes through only if user is not the
\* zero address, user is the authorizer, the authorized value is
\* TICKET_PRICE * count, count is positive, the pool is open, the holder's
\* allowance is not passed and the authorized transfer is carried out; in
\* every other case no ticket is stored and nextTicketId and ticketsSold are
\* as before.
C33_AuthorizedIssuance ==
  Running =>
    \A user \in UserArgs, c \in 0..MaxCount, from \in Addresses,
       paid \in BOOLEAN :
      \A value \in {TICKET_PRICE * c, TICKET_PRICE * c + 1} :
        LET err == BuyTicketsWithAuthorizationErr(user, c, from, value, paid)
            goes == /\ user # ZERO
                    /\ user = from
                    /\ value = TICKET_PRICE * c
                    /\ c > 0
                    /\ totalMinted < MINING_POOL
                    /\ getActiveTicketCount(user) + c
                         <= MAX_TICKETS_PER_ADDRESS
                    /\ paid
        IN /\ err = "" <=> goes
           /\ err # "" => IssueWrites(err, user, c) = Unissued
           /\ err = "" =>
                /\ Len(IssueWrites(err, user, c).userMachines[user])
                     = Len(userMachines[user]) + c
                /\ IssueWrites(err, user, c).ticketsSold = ticketsSold + c

\* an authorization for the wrong amount was turned down, after a ticket
\* had been issued
C33_Witness ==
  /\ last.err = "Incorrect authorization amount"
  /\ ticketsSold = 1
  /\ nextTicketId = 2

\* what a claim at this block computes for a machine
PayoutNow(m) ==
  IF now - m.purchasedAt >= MACHINE_LIFETIME THEN m.output
  ELSE MulDiv(m.output,
              ((now - m.purchasedAt) * PERCENTAGE_BASE) \div MACHINE_LIFETIME,
              PERCENTAGE_BASE)

\* C36 -- A claim of the single id t for holder h goes through if and only
\* if h holds a ticket t that is unclaimed, purchasedAt <= now <=
\* purchasedAt + TOTAL_CLAIM_WINDOW, the payout computed for it is positive
\* and totalMinted + payout <= MINING_POOL; a claim that is turned down
\* writes nothing, so a ticket turned down for a payout of 0 or for lack of
\* room in the pool is still unclaimed.
C36_SingleClaim ==
  Running =>
    \A h \in Addresses, t \in 1..nextTicketId :
      LET r == ClaimRun(h, <<t>>)
          goes == \E m \in MachinesOf(h) :
                    /\ m.ticketId = t
                    /\ ~m.claimed
                    /\ m.purchasedAt <= now
                    /\ now <= m.purchasedAt + TOTAL_CLAIM_WINDOW
                    /\ PayoutNow(m) > 0
                    /\ totalMinted + PayoutNow(m) <= MINING_POOL
      IN /\ r.err = "" <=> goes
         /\ r.err # "" => SettleWrites(r, h) = Unsettled
         /\ r.err = "" => SettleWrites(r, h).totalMinted > totalMinted

\* a ticket that has finished mining, within its window, was turned down
\* for lack of room in the pool and is still unclaimed
C36_Witness ==
  /\ last.err = "Exceeds mining pool"
  /\ \E m \in MachinesOf(Alice) :
       /\ ~m.claimed
       /\ now - m.purchasedAt >= MACHINE_LIFETIME
       /\ now <= m.purchasedAt + TOTAL_CLAIM_WINDOW
       /\ totalMinted + m.output > MINING_POOL

\* the ticket ids stored in a holder's array
IdsOf(a) == {userMachines[a][i].ticketId : i \in 1..Len(userMachines[a])}

\* C37 -- In every reachable state nextTicketId = 1 + ticketsSold,
\* ticketsSold is the number of tickets stored over all holders, and the
\* stored ids are exactly 1..ticketsSold, each stored once, with one holder.
C37_IdsAndCounters ==
  /\ nextTicketId = 1 + ticketsSold
  /\ ticketsSold = SumSeq([i \in 1..2 |->
                             Len(userMachines[IF i = 1 THEN Owner ELSE Alice])])
  /\ UNION {IdsOf(a) : a \in Addresses} = 1..ticketsSold
  /\ \A a \in Addresses :
       /\ Cardinality(IdsOf(a)) = Len(userMachines[a])
       /\ \A b \in Addresses \ {a} : IdsOf(a) \cap IdsOf(b) = {}

\* each of the two holders has one ticket
C37_Witness ==
  /\ Len(userMachines[Owner]) = 1
  /\ Len(userMachines[Alice]) = 1
  /\ ticketsSold = 2
  /\ nextTicketId = 3

\* C38 -- Every stored ticket has a locked reward above zero, equal to the
\* stage reward of one of the stages 0..5; while the pool is open the current
\* stage is within 0..5 and the reward a purchase would lock is above zero.
C38_RewardLocked ==
  /\ \A m \in AllMachines :
       /\ m.output > 0
       /\ \E s \in 0..5 : m.output = calculateStageOutput(s)
  /\ PoolOpen => /\ getCurrentStage \in 0..5
                 /\ LockedOutput > 0

\* a ticket bought in the last stage is stored with the last stage's reward
C38_Witness ==
  \E m \in MachinesOf(Alice) :
    /\ m.output = calculateStageOutput(5)
    /\ m.output > 0
    /\ m.output < INITIAL_OUTPUT

\* C39 -- Locked rewards never rise in the order of issue: of two stored
\* tickets, whoever holds them, the one with the smaller id has a locked
\* reward at least as large as the other's.
C39_RewardsNonIncreasing ==
  \A m1 \in AllMachines, m2 \in AllMachines :
    m1.ticketId < m2.ticketId => m1.output >= m2.output

\* a later ticket of one holder locked strictly less than an earlier ticket
\* of the other holder
C39_Witness ==
  \E m1 \in MachinesOf(Alice), m2 \in MachinesOf(Owner) :
    /\ m1.ticketId < m2.ticketId
    /\ m1.output > m2.output

\* C40 -- No claim after expiry: once a ticket is unclaimed and the time is
\* past purchasedAt + TOTAL_CLAIM_WINDOW, every claim naming it, direct or
\* delegated, is turned down, and every step, whichever call it is, leaves
\* the ticket's record as it is and reports no reward paid for it.
C40_NoClaimAfterExpiry ==
  /\ [](\A a \in Addresses :
         \A i \in 1..Len(userMachines[a]) :
           (~userMachines[a][i].claimed /\ Expired(userMachines[a][i]))
             => \A ids \in TicketIdLists(MaxBatch) :
                  (\E k \in 1..Len(ids) :
                        ids[k] = userMachines[a][i].ticketId)
                    => ClaimRejected(a, ids))
  /\ [][\A a \in Addresses :
          \A i \in 1..Len(userMachines[a]) :
            (~userMachines[a][i].claimed /\ Expired(userMachines[a][i]))
              => /\ userMachines'[a][i] = userMachines[a][i]
                 /\ \A k \in 1..Len(last'.events) :
                      last'.events[k].event = "RewardsClaimed"
                        => last'.events[k].ticketId
                             # userMachines[a][i].ticketId]_vars

\* a ticket ran out of its window unclaimed, and a ticket sold after that
\* is stored next to it; nothing has been minted
C40_Witness ==
  /\ Len(userMachines[Alice]) = 2
  /\ ~userMachines[Alice][1].claimed
  /\ Expired(userMachines[Alice][1])
  /\ userMachines[Alice][2].purchasedAt
       > userMachines[Alice][1].purchasedAt + TOTAL_CLAIM_WINDOW
  /\ IsPurchase(last)
  /\ totalMinted = 0

\* what the loop of claim computes for one ticket of a holder, claimed alone
LoopPayout(h, id) ==
  ClaimLoop([err |-> "", machines |-> userMachines[h], payouts |-> <<>>],
            <<id>>)

\* C31 -- The view agrees with the claim: for every stored ticket,
\* getUserMachines reports the stored fields, and its claimableNow is the
\* amount the loop of claim computes for that ticket at the same time when
\* the ticket is unclaimed and purchasedAt <= now <= purchasedAt +
\* TOTAL_CLAIM_WINDOW, and 0 when it is claimed or outside that window.
C31_ViewAgreesWithClaim ==
  \A h \in Addresses :
    LET view == getUserMachines(h) IN
    /\ Len(view) = Len(userMachines[h])
    /\ \A i \in 1..Len(view) :
         LET m == userMachines[h][i]
             r == LoopPayout(h, m.ticketId)
         IN /\ view[i].ticketId = m.ticketId
            /\ view[i].purchasedAt = m.purchasedAt
            /\ view[i].expiresAt = m.expiresAt
            /\ view[i].output = m.output
            /\ view[i].claimed = m.claimed
            /\ IF /\ ~m.claimed
                  /\ m.purchasedAt <= now
                  /\ now <= m.purchasedAt + TOTAL_CLAIM_WINDOW
                 THEN /\ r.err = ""
                      /\ r.payouts = <<view[i].claimableNow>>
                 ELSE /\ r.err # ""
                      /\ view[i].claimableNow = 0

\* a claimed ticket, shown with 0, next to an unclaimed one that is part
\* of the way through its mining time
C31_Witness ==
  /\ Len(userMachines[Alice]) = 2
  /\ userMachines[Alice][1].claimed
  /\ getUserMachines(Alice)[1].claimableNow = 0
  /\ ~userMachines[Alice][2].claimed
  /\ getUserMachines(Alice)[2].claimableNow > 0
  /\ getUserMachines(Alice)[2].claimableNow < userMachines[Alice][2].output

\* what the views return on a ledger: getPlatformStats, and for every
\* holder getUserMachines and getActiveTicketCount, with the next id
ViewsAt(s) ==
  [stats |-> PlatformStatsAt(s.totalMinted, s.ticketsSold),
   machines |-> [a \in Addresses |-> MachinesView(s.userMachines[a])],
   active |-> [a \in Addresses |-> ActiveCountAt(s.userMachines[a], now)],
   nextTicketId |-> s.nextTicketId]

\* C32 -- A view never sees a half-written ledger.  While an issuance is
\* stopped at its USDC transfer, callbacks included, the views return what
\* they returned before the call; while a claim is stopped at its mint they
\* return what they return after it; and at every point nextTicketId is
\* 1 + ticketsSold, which is what getPlatformStats reports as sold and the
\* number of tickets getUserMachines lists over all holders.
C32_ViewsSeeWholeLedger ==
  /\ callStack # <<>> /\ callStack[1].kind = "issue"
       => ViewsAt(Storage) = ViewsAt(callStack[1].saved)
  /\ callStack # <<>> /\ callStack[1].kind = "claim"
       => ViewsAt(Storage) = ViewsAt(ReturnWrites(callStack[1], TRUE))
  /\ nextTicketId = 1 + getPlatformStats.ticketsSoldCount
  /\ getPlatformStats.ticketsSoldCount
       = SumSeq([i \in 1..2 |->
                   Len(getUserMachines(IF i = 1 THEN Owner ELSE Alice))])

\* an issuance of one more ticket is stopped at its transfer, one ticket
\* being stored already, and the token has called back into the contract
C32_Witness ==
  /\ callStack # <<>>
  /\ callStack[1].kind = "issue"
  /\ callStack[1].count = 1
  /\ callStack[1].inner # {}
  /\ Len(getUserMachines(Alice)) = 1
  /\ getPlatformStats.ticketsSoldCount = 1
  /\ nextTicketId = 2

\* a receipt of a mintForLP that went through
IsLPMint(receipt) ==
  receipt.events # <<>> /\ receipt.events[1].event = "Transfer"

\* C34 (as stated) -- mintForLP goes through at most once: a mintForLP that
\* went through is not followed by another one that goes through.
C34_MintForLPOnce == [][~(IsLPMint(last) /\ IsLPMint(last'))]_vars

\* C34 -- What does hold of mintForLP: a call goes through only from the
\* owner, with a total supply of 0 and an amount of at most LP_ALLOCATION;
\* it adds the amount to the owner's balance and leaves totalMinted, the
\* tickets, nextTicketId and ticketsSold as they are; and a call that
\* mints more than nothing leaves a supply above 0, so that every later
\* call is turned down.  A call for nothing leaves the supply at 0.
C34_MintForLP ==
  [][/\ IsLPMint(last')
          => /\ totalSupply = 0
             /\ last'.events[1].value <= LP_ALLOCATION
             /\ last'.events[1].to = Owner
             /\ balanceOf' = [balanceOf EXCEPT
                                ![Owner] = @ + last'.events[1].value]
             /\ totalSupply' = last'.events[1].value
             /\ UNCHANGED <<totalMinted, userMachines, nextTicketId,
                            ticketsSold>>
     /\ totalSupply > 0 => ~IsLPMint(last')
     /\ \A s \in Addresses, a \in LPAmounts :
          MintForLPErr(s, a) = ""
            <=> s = Owner /\ totalSupply = 0 /\ a <= LP_ALLOCATION]_vars

\* the owner minted the whole allocation after a ticket had been sold
C34_Witness ==
  /\ IsLPMint(last)
  /\ last.events[1].value = LP_ALLOCATION
  /\ balanceOf[Owner] = LP_ALLOCATION
  /\ totalMinted = 0
  /\ ticketsSold = 1

\* an address written out: a string of 0x, if at all, in either case, and
\* AddressDigits hexadecimal digits
IsAddressText(v) ==
  /\ v.type = "string"
  /\ LET s == IF At(v.chars, 1) = "0" /\ At(v.chars, 2) \in {"x", "X"}
                THEN SubSeq(v.chars, 3, Len(v.chars)) ELSE v.chars
     IN /\ Len(s) = AddressDigits
        /\ \A i \in 1..Len(s) : IsDigit(s[i], 16)

\* ticketCount parses to a whole number from 1 to 5
CountInRange(v) == ~parseInt(v).nan /\ parseInt(v).value \in 1..5

\* the request carries an X-Payment header
HasPayment(req) == req.xPayment.type = "string" /\ req.xPayment.chars # <<>>

\* C35 (as stated) -- A success answer is given only to a request with an
\* X-Payment header that parses as JSON, a userAddress that is a valid
\* address and a ticketCount that parses to 1..5, after the facilitator
\* answered ok.
C35_SuccessOnlyAfterChecks ==
  http.response.success
    => /\ HasPayment(http.request)
       /\ JSONParses(http.request.xPayment)
       /\ IsAddressText(http.request.userAddress)
       /\ CountInRange(http.request.ticketCount)
       /\ http.contacted
       /\ http.outcome = "ok"

\* C35 -- What does hold, with "valid address" read as "accepted by the
\* server's address test": success is answered only after the header
\* parsed, the address test and the count test passed and the facilitator
\* answered ok; without X-Payment the answer is 402, with X-Payment and a
\* failed test it is 400, in both cases without the facilitator having
\* been called; the facilitator is called only after all tests; and its
\* not-ok answer is answered 502.  The one success without an address
\* written out as a string is that of index.ts for an array whose text is
\* an address.
C35_ChecksBeforeFacilitator ==
  LET req == http.request
      passes == /\ AddressAccepted(req.server, req.userAddress)
                /\ CountInRange(req.ticketCount)
                /\ JSONParses(req.xPayment)
  IN /\ http.response.success
          => /\ http.response.status = 200
             /\ HasPayment(req) /\ passes
             /\ http.contacted /\ http.outcome = "ok"
     /\ http.phase = "answered" /\ ~HasPayment(req)
          => http.response.status = 402 /\ ~http.contacted
     /\ http.phase = "answered" /\ HasPayment(req) /\ ~passes
          => http.response.status = 400 /\ ~http.contacted
     /\ http.contacted <=> http.phase # "idle" /\ HasPayment(req) /\ passes
     /\ http.outcome = "not ok"
          => http.response.status = 502 /\ ~http.response.success
     /\ http.outcome = "ok" <=> http.response.success
     /\ http.response.success /\ ~IsAddressText(req.userAddress)
          => req.server = "index" /\ req.userAddress.type = "array"

\* index.ts answered success to a request whose userAddress is an array
C35_Witness ==
  /\ http.response.success
  /\ http.request.server = "index"
  /\ http.request.userAddress.type = "array"
  /\ http.outcome = "ok"
  /\ parseInt(http.request.ticketCount).value = 3

====
